---- MODULE Spec2Model ----
(***************************************************************************)
(* A model of the IPTV front-end: the directional-navigation engine        *)
(* (Navigation, src/js/m3u-pharser.js:237-617) on a surface of focusable   *)
(* targets, and the playlist parser (M3UParser, src/js/m3u-pharser.js:     *)
(* 6-228).  Rows and columns are 0-based as in the code; TLA+ sequences    *)
(* are 1-based, so grid row r of the code is grid[r + 1] here.             *)
(***************************************************************************)
EXTENDS Integers, Sequences, FiniteSets, TLC

\* ------------------------------------------------------------------------
\* Bounds of the model and constants of the program
\* ------------------------------------------------------------------------

\* Number of focusable targets the surface may hold (DOM order = numeric order).
NumTargets == 5

\* Most select() calls a behaviour of Spec makes while the history is that long.
MaxHist == 1

\* Most settle timers pending at once.
MaxTimers == 2

\* Most lines of a playlist text.
MaxLines == 4

\* Most characters of a channel name handed to generateId.
MaxStr == 7

\* Most channels handed to search and getGroups.
MaxChannels == 3

\* Clock ticks in an hour, most hours a cache entry is kept, and the last
\* tick of the clock.
TicksPerHour == 2

MaxTtl == 2

MaxClock == 5

\* src/js/m3u-pharser.js:364  Math.floor(rect.top / 80)
BandHeight == 80

\* src/js/m3u-pharser.js:521  if (this.focusHistory.length > 20)
HistoryLimit == 20

Targets == 1..NumTargets

\* focusedElement: null
Null == 0

Sections == {"home", "favorites"}

Directions == {"up", "down", "left", "right"}

\* ------------------------------------------------------------------------
\* The surface: what document.querySelector(All) and getBoundingClientRect
\* answer.  A target is in the header navigation ("nav"), in the active
\* section ("section"), in the player overlay ("player"), or detached
\* ("gone").  anchor says whether `.section.active, #player-overlay:not(
\* .hidden)` matches anything.
\* ------------------------------------------------------------------------

Place(scope, top, left) == [scope |-> scope, top |-> top, left |-> left]

Gone == Place("gone", 0, 0)

\* One rendering of the page: target 1 is a header button, target 2 the
\* player's play/pause control, targets 3.. are channel cards laid out in
\* `cols` columns, of which `shown` are rendered; the page is scrolled down by
\* `scroll` units (the overlay is fixed) and `mirror` lays cards out right to
\* left.
LayoutPlace(t, cols, shown, scroll, mirror) ==
    IF t = 1 THEN Place("nav", 10 - scroll, 0)
    ELSE IF t = 2 THEN Place("player", 10, 0)
    ELSE LET i == t - 3 IN
         IF i >= shown THEN Gone
         ELSE Place("section", 90 + 80 * (i \div cols) - scroll,
                    IF mirror THEN 200 - 100 * (i % cols) ELSE 100 * (i % cols))

Scene(anchor, cols, shown, scroll, mirror) ==
    [anchor |-> anchor,
     place  |-> [t \in Targets |-> LayoutPlace(t, cols, shown, scroll, mirror)]]

EmptyScene(anchor) == [anchor |-> anchor, place |-> [t \in Targets |-> Gone]]

\* The renderings the surface takes: two columns of cards, one column, two
\* columns mirrored and scrolled down by one band (the header button is then
\* above the viewport), no active section and no overlay, and a page without
\* any target.
Scenes ==
    { Scene(TRUE, 2, NumTargets - 2, 0, FALSE),
      Scene(TRUE, 1, NumTargets - 2, 0, FALSE),
      Scene(TRUE, 2, NumTargets - 2, 80, TRUE),
      Scene(FALSE, 2, NumTargets - 2, 0, FALSE),
      EmptyScene(TRUE) }

\* document.contains(el)
Attached(s, t) == t \in Targets /\ s.place[t].scope # "gone"

\* document.querySelectorAll('<scope> .focusable'), in document order
QueryAll(s, scope) ==
    SelectSeq([t \in 1..NumTargets |-> t], LAMBDA t : s.place[t].scope = scope)

\* ------------------------------------------------------------------------
\* Navigation.updateFocusableElements
\* ------------------------------------------------------------------------

\* Math.floor(rect.top / 80)
Band(s, t) == s.place[t].top \div BandHeight

SeqMax(f, els) ==
    LET RECURSIVE M(_)
        M(i) == IF i = 0 THEN -1
                ELSE LET m == M(i - 1) IN IF f[els[i]] > m THEN f[els[i]] ELSE m
    IN M(Len(els))

\* this.grid[row].push(el) for each el: a negative row is a property of the
\* array object, not an element of it, so only rows 0.. are array slots.
\* this.grid.filter(row => row && row.length > 0) keeps the filled slots in
\* index order.
Bucketed(s, els) ==
    LET band == [t \in Targets |-> Band(s, t)]
        top  == SeqMax(band, els)
        RECURSIVE Rows(_)
        Rows(b) ==
            IF b > top THEN <<>>
            ELSE LET row == SelectSeq(els, LAMBDA t : band[t] = b)
                 IN (IF row = <<>> THEN <<>> ELSE <<row>>) \o Rows(b + 1)
    IN Rows(0)

\* A row left in document order
UnsortedRow(s, row) == row

\* row.sort((a, b) => rectA.left - rectB.left): a stable sort by left
SortRow(s, row) ==
    LET RECURSIVE Ins(_, _)
        Ins(sorted, t) ==
            IF sorted = <<>> THEN <<t>>
            ELSE IF s.place[sorted[Len(sorted)]].left <= s.place[t].left
                 THEN Append(sorted, t)
                 ELSE Append(Ins(SubSeq(sorted, 1, Len(sorted) - 1), t),
                             sorted[Len(sorted)])
        RECURSIVE Sort(_)
        Sort(i) == IF i = 0 THEN <<>> ELSE Ins(Sort(i - 1), row[i])
    IN Sort(Len(row))

\* The focusables of the current mode
Focusables(s, player) ==
    IF player THEN QueryAll(s, "player")
    ELSE QueryAll(s, "nav") \o QueryAll(s, "section")

BuildGrid(s, els) ==
    LET rows == Bucketed(s, els)
    IN [i \in 1..Len(rows) |-> SortRow(s, rows[i])]

\* A rebuild that patches the previous grid: the rows built are added after
\* the rows already there.
PatchedGrid(s, player, old) ==
    IF ~s.anchor THEN old ELSE old \o BuildGrid(s, Focusables(s, player))

\* The grid after updateFocusableElements(): unchanged when no section is
\* active and no overlay shown (the early return of line 345).
UpdatedGrid(s, player, old) ==
    IF ~s.anchor THEN old ELSE BuildGrid(s, Focusables(s, player))

\* ------------------------------------------------------------------------
\* Navigation.navigate: the cursor computation
\* ------------------------------------------------------------------------

Min(a, b) == IF a < b THEN a ELSE b

\* A search that never finds the target
LocateNothing(g, el) == [found |-> FALSE, row |-> 0, col |-> 0]

\* The loop of lines 396-403: the first row holding el, and el's first
\* column in it (indexOf); found is FALSE when no row holds it.
Locate(g, el) ==
    LET rows == {r \in 1..Len(g) : \E c \in 1..Len(g[r]) : g[r][c] = el}
    IN IF rows = {} THEN [found |-> FALSE, row |-> 0, col |-> 0]
       ELSE LET r == CHOOSE x \in rows : \A y \in rows : x <= y
                cols == {c \in 1..Len(g[r]) : g[r][c] = el}
                c == CHOOSE x \in cols : \A y \in cols : x <= y
            IN [found |-> TRUE, row |-> r - 1, col |-> c - 1]

\* this.grid[row] is an array
RowDefined(g, row) == row >= 0 /\ row < Len(g)

\* this.grid[row][col], Null for undefined (row must be defined)
GridAt(g, row, col) ==
    IF col >= 0 /\ col < Len(g[row + 1]) THEN g[row + 1][col + 1] ELSE Null

Moved(row, col, next) == [row |-> row, col |-> col, next |-> next, raised |-> FALSE]

\* A TypeError (a property of undefined is read): the assignments made to
\* currentRow / currentCol before it stay.
Threw(row, col) == [row |-> row, col |-> col, next |-> Null, raised |-> TRUE]

\* An 'up' that keeps the column as it is
NavUpNoClamp(g, row, col) ==
    IF row > 0 THEN Moved(row - 1, col, GridAt(g, row - 1, col))
    ELSE Moved(row, col, Null)

\* case 'up', lines 406-412
NavUp(g, row, col) ==
    IF row > 0
    THEN IF RowDefined(g, row - 1)
         THEN LET c == Min(col, Len(g[row]) - 1)
              IN Moved(row - 1, c, GridAt(g, row - 1, c))
         ELSE Threw(row - 1, col)
    ELSE Moved(row, col, Null)

\* case 'down', lines 413-419
NavDown(g, row, col) ==
    IF row < Len(g) - 1
    THEN IF RowDefined(g, row + 1)
         THEN LET c == Min(col, Len(g[row + 2]) - 1)
              IN Moved(row + 1, c, GridAt(g, row + 1, c))
         ELSE Threw(row + 1, col)
    ELSE Moved(row, col, Null)

\* A 'left' that wraps to the first column of the previous row
NavLeftToStart(g, row, col) ==
    IF col > 0 THEN Moved(row, col - 1, GridAt(g, row, col - 1))
    ELSE IF row > 0 THEN Moved(row - 1, 0, GridAt(g, row - 1, 0))
    ELSE Moved(row, col, Null)

\* case 'left', lines 420-430
NavLeft(g, row, col) ==
    IF col > 0
    THEN IF RowDefined(g, row)
         THEN Moved(row, col - 1, GridAt(g, row, col - 1))
         ELSE Threw(row, col - 1)
    ELSE IF row > 0
         THEN IF RowDefined(g, row - 1)
              THEN Moved(row - 1, Len(g[row]) - 1,
                         GridAt(g, row - 1, Len(g[row]) - 1))
              ELSE Threw(row - 1, col)
         ELSE Moved(row, col, Null)

\* A 'right' that stops at the end of every row
NavRightNoWrap(g, row, col) ==
    IF col < Len(g[row + 1]) - 1
    THEN Moved(row, col + 1, GridAt(g, row, col + 1))
    ELSE Moved(row, col, Null)

\* case 'right', lines 431-441
NavRight(g, row, col) ==
    IF ~RowDefined(g, row) THEN Threw(row, col)
    ELSE IF col < Len(g[row + 1]) - 1
         THEN Moved(row, col + 1, GridAt(g, row, col + 1))
         ELSE IF row < Len(g) - 1
              THEN Moved(row + 1, 0, GridAt(g, row + 1, 0))
              ELSE Moved(row, col, Null)

\* Lines 392-442 on a non-empty grid g: the cursor is the focused target's
\* place when the grid holds it, else the values currentRow / currentCol
\* kept from earlier calls; then one step in direction dir.
NavStep(g, el, row, col, dir) ==
    LET at == Locate(g, el)
        r  == IF at.found THEN at.row ELSE row
        c  == IF at.found THEN at.col ELSE col
    IN CASE dir = "up"    -> NavUp(g, r, c)
         [] dir = "down"  -> NavDown(g, r, c)
         [] dir = "left"  -> NavLeft(g, r, c)
         [] dir = "right" -> NavRight(g, r, c)

\* A setFocus that marks the new target and leaves the other marks
MarksKeepOld(m, old, el) == m \cup {el}

\* setFocus(element), lines 452-469: the 'focused' class leaves the previous
\* target and is put on the new one.  (scrollIntoView only asks the surface
\* for a smooth scroll, which the surface performs later: SurfaceChange.)
MarksAfterFocus(m, old, el) == (m \ {old}) \cup {el}

\* ------------------------------------------------------------------------
\* M3UParser: strings are sequences of characters.  A character is a
\* one-character string; the line feed, carriage return, tab and double
\* quote are LF, CR, TAB and DQ.
\* ------------------------------------------------------------------------

LF == "LF"

CR == "CR"

TAB == "TAB"

DQ == "DQ"

\* str.charCodeAt(i)
CharCode(c) ==
    CASE c = LF -> 10 [] c = CR -> 13 [] c = TAB -> 9 [] c = DQ -> 34
      [] c = "a" -> 97 [] c = "b" -> 98 [] c = "c" -> 99 [] c = "d" -> 100
         [] c = "e" -> 101 [] c = "f" -> 102 [] c = "g" -> 103
         [] c = "h" -> 104 [] c = "i" -> 105 [] c = "j" -> 106
         [] c = "k" -> 107 [] c = "l" -> 108 [] c = "m" -> 109
         [] c = "n" -> 110 [] c = "o" -> 111 [] c = "p" -> 112
         [] c = "q" -> 113 [] c = "r" -> 114 [] c = "s" -> 115
         [] c = "t" -> 116 [] c = "u" -> 117 [] c = "v" -> 118
         [] c = "w" -> 119 [] c = "x" -> 120 [] c = "y" -> 121
         [] c = "z" -> 122 [] c = "A" -> 65 [] c = "B" -> 66
         [] c = "C" -> 67 [] c = "D" -> 68 [] c = "E" -> 69 [] c = "F" -> 70
         [] c = "G" -> 71 [] c = "H" -> 72 [] c = "I" -> 73 [] c = "J" -> 74
         [] c = "K" -> 75 [] c = "L" -> 76 [] c = "M" -> 77 [] c = "N" -> 78
         [] c = "O" -> 79 [] c = "P" -> 80 [] c = "Q" -> 81 [] c = "R" -> 82
         [] c = "S" -> 83 [] c = "T" -> 84 [] c = "U" -> 85 [] c = "V" -> 86
         [] c = "W" -> 87 [] c = "X" -> 88 [] c = "Y" -> 89 [] c = "Z" -> 90
         [] c = "0" -> 48 [] c = "1" -> 49 [] c = "2" -> 50 [] c = "3" -> 51
         [] c = "4" -> 52 [] c = "5" -> 53 [] c = "6" -> 54 [] c = "7" -> 55
         [] c = "8" -> 56 [] c = "9" -> 57 [] c = " " -> 32 [] c = "#" -> 35
         [] c = ":" -> 58 [] c = "-" -> 45 [] c = "," -> 44 [] c = "/" -> 47
         [] c = "=" -> 61 [] c = "_" -> 95 [] c = "." -> 46

Letters ==
    { "a", "b", "c", "d", "e", "f", "g", "h", "i", "j", "k", "l", "m",
      "n", "o", "p", "q", "r", "s", "t", "u", "v", "w", "x", "y", "z",
      "A", "B", "C", "D", "E", "F", "G", "H", "I", "J", "K", "L", "M",
      "N", "O", "P", "Q", "R", "S", "T", "U", "V", "W", "X", "Y", "Z" }

\* key.toLowerCase(), character by character
LowerChar(c) ==
    CASE c = "A" -> "a" [] c = "B" -> "b" [] c = "C" -> "c"
         [] c = "D" -> "d" [] c = "E" -> "e" [] c = "F" -> "f"
         [] c = "G" -> "g" [] c = "H" -> "h" [] c = "I" -> "i"
         [] c = "J" -> "j" [] c = "K" -> "k" [] c = "L" -> "l"
         [] c = "M" -> "m" [] c = "N" -> "n" [] c = "O" -> "o"
         [] c = "P" -> "p" [] c = "Q" -> "q" [] c = "R" -> "r"
         [] c = "S" -> "s" [] c = "T" -> "t" [] c = "U" -> "u"
         [] c = "V" -> "v" [] c = "W" -> "w" [] c = "X" -> "x"
         [] c = "Y" -> "y" [] c = "Z" -> "z"
      [] OTHER -> c

ToLowerCase(s) == [i \in 1..Len(s) |-> LowerChar(s[i])]

\* The white space String.prototype.trim removes
WhiteSpace == {" ", TAB, CR, LF}

\* The characters the `.` of a regular expression does not match
LineTerminators == {CR, LF}

\* line.trim()
Trim(s) ==
    LET keep == {i \in 1..Len(s) : s[i] \notin WhiteSpace}
    IN IF keep = {} THEN <<>>
       ELSE LET a == CHOOSE i \in keep : \A j \in keep : i <= j
                b == CHOOSE i \in keep : \A j \in keep : i >= j
            IN SubSeq(s, a, b)

\* line.startsWith(prefix)
StartsWith(s, prefix) ==
    Len(s) >= Len(prefix) /\ SubSeq(s, 1, Len(prefix)) = prefix

\* content.split('\n'): the pieces between the line feeds, one more than
\* there are line feeds
Split(s) ==
    LET feeds  == {i \in 1..Len(s) : s[i] = LF}
        Feed(j) == CHOOSE p \in feeds : Cardinality({q \in feeds : q < p}) = j - 1
        n      == Cardinality(feeds) + 1
    IN [j \in 1..n |->
           SubSeq(s, IF j = 1 THEN 1 ELSE Feed(j - 1) + 1,
                     IF j = n THEN Len(s) ELSE Feed(j) - 1)]

ExtInfPrefix == <<"#", "E", "X", "T", "I", "N", "F", ":">>

HttpPrefix == <<"h", "t", "t", "p">>

UnknownChannel == 
    <<"U", "n", "k", "n", "o", "w", "n", " ", "C", "h",
      "a", "n", "n", "e", "l">>

Uncategorized == 
    <<"U", "n", "c", "a", "t", "e", "g", "o", "r", "i",
      "z", "e", "d">>

KeyTvgLogo == <<"t", "v", "g", "-", "l", "o", "g", "o">>

KeyTvgName == <<"t", "v", "g", "-", "n", "a", "m", "e">>

KeyTvgId == <<"t", "v", "g", "-", "i", "d">>

KeyGroupTitle == <<"g", "r", "o", "u", "p", "-", "t", "i", "t", "l", "e">>

KeyTvgLanguage == 
    <<"t", "v", "g", "-", "l", "a", "n", "g", "u", "a",
      "g", "e">>

KeyTvgCountry == <<"t", "v", "g", "-", "c", "o", "u", "n", "t", "r", "y">>

IdPrefix == <<"c", "h", "_">>

\* Number.prototype.toString(36): the digits
Digits36 ==
    <<"0", "1", "2", "3", "4", "5", "6", "7", "8", "9", "a", "b", "c",
       "d", "e", "f", "g", "h", "i", "j", "k", "l", "m", "n", "o", "p",
       "q", "r", "s", "t", "u", "v", "w", "x", "y", "z">>

\* ------------------------------------------------------------------------
\* M3UParser.parseExtInf
\* ------------------------------------------------------------------------

\* The least member of a non-empty set of positions
Least(P) == CHOOSE i \in P : \A j \in P : i <= j

\* /([a-zA-Z-]+)="([^"]*)"/ tried at position s of line: the key runs from
\* s to the first character that is no letter and no hyphen, which has to
\* be the `=` of `="`, and the value runs to the next double quote.
AttrAt(line, s) ==
    LET n    == Len(line)
        stop == {j \in s..n : line[j] \notin Letters \cup {"-"}}
        j    == IF stop = {} THEN n + 1 ELSE Least(stop)
        quot == {k \in (j + 2)..n : line[k] = DQ}
    IN IF j > s /\ j + 1 <= n /\ line[j] = "=" /\ line[j + 1] = DQ
          /\ quot # {}
       THEN [found |-> TRUE, key |-> SubSeq(line, s, j - 1),
             value |-> SubSeq(line, j + 2, Least(quot) - 1),
             end |-> Least(quot) + 1]
       ELSE [found |-> FALSE, key |-> <<>>, value |-> <<>>, end |-> s]

\* attrRegex.exec(line) in a loop, lines 129-151: the matches from left to
\* right, each search starting where the previous match ended.
AttrMatches(line) ==
    LET RECURSIVE From(_)
        From(i) ==
            LET starts == {s \in i..Len(line) : AttrAt(line, s).found}
            IN IF starts = {} THEN <<>>
               ELSE LET m == AttrAt(line, Least(starts))
                    IN <<m>> \o From(m.end)
    IN From(1)

\* The object literal of lines 115-123
NewChannel ==
    [name |-> UnknownChannel, logo |-> <<>>, group |-> Uncategorized,
     language |-> <<>>, country |-> <<>>, tvgId |-> <<>>, tvgName |-> <<>>,
     url |-> <<>>, id |-> <<>>]

\* The switch of lines 131-150
WithAttr(ch, key, value) ==
    LET k == ToLowerCase(key)
    IN CASE k = KeyTvgLogo     -> [ch EXCEPT !.logo = value]
         [] k = KeyTvgName     -> [ch EXCEPT !.tvgName = value]
         [] k = KeyTvgId       -> [ch EXCEPT !.tvgId = value]
         [] k = KeyGroupTitle  ->
               [ch EXCEPT !.group = IF value = <<>> THEN Uncategorized
                                    ELSE value]
         [] k = KeyTvgLanguage -> [ch EXCEPT !.language = value]
         [] k = KeyTvgCountry  -> [ch EXCEPT !.country = value]
         [] OTHER              -> ch

\* line.match(/,(.+)$/), line 154: the first comma that is followed by at
\* least one character and by no line terminator up to the end; the group
\* is what follows it.
NameMatch(line) ==
    LET n      == Len(line)
        commas == {p \in 1..(n - 1) :
                      /\ line[p] = ","
                      /\ \A q \in (p + 1)..n : line[q] \notin LineTerminators}
    IN IF commas = {} THEN [found |-> FALSE, group |-> <<>>]
       ELSE [found |-> TRUE, group |-> SubSeq(line, Least(commas) + 1, n)]

\* parseExtInf(line), lines 114-165
ParseExtInf(line) ==
    LET ms == AttrMatches(line)
        RECURSIVE Apply(_)
        Apply(i) == IF i = 0 THEN NewChannel
                    ELSE WithAttr(Apply(i - 1), ms[i].key, ms[i].value)
        c1 == Apply(Len(ms))
        nm == NameMatch(line)
        c2 == IF nm.found THEN [c1 EXCEPT !.name = Trim(nm.group)] ELSE c1
    IN IF c2.name = UnknownChannel /\ c2.tvgName # <<>>
       THEN [c2 EXCEPT !.name = c2.tvgName] ELSE c2

\* ------------------------------------------------------------------------
\* M3UParser.generateId.  A 32-bit integer is two 16-bit halves
\* [hi, lo], its value modulo 2^32 being hi * 2^16 + lo (two's complement:
\* negative when hi >= 2^15).
\* ------------------------------------------------------------------------

\* A loop body that adds the character to the shifted accumulator only
HashStepShiftOnly(h, c) ==
    LET low  == h.lo * 32 + c
        high == h.hi * 32 + low \div 65536
    IN [hi |-> high % 65536, lo |-> low % 65536]

\* Lines 175-176: hash = ((hash << 5) - hash) + char; hash = hash & hash.
\* The shift, the difference and the sum are taken on each half, the low
\* half's carry goes to the high half, and the `&` keeps the low 32 bits.
HashStep(h, c) ==
    LET low  == h.lo * 32 - h.lo + c
        high == h.hi * 32 - h.hi + low \div 65536
    IN [hi |-> high % 65536, lo |-> low % 65536]

\* The loop of lines 172-177
HashOf(str) ==
    LET RECURSIVE H(_)
        H(i) == IF i = 0 THEN [hi |-> 0, lo |-> 0]
                ELSE HashStep(H(i - 1), CharCode(str[i]))
    IN H(Len(str))

\* Math.abs(hash), as an unsigned value (2^31 for the least integer)
Abs32(h) ==
    IF h.hi < 32768 THEN h
    ELSE [hi |-> (65535 - h.hi + (IF h.lo = 0 THEN 1 ELSE 0)) % 65536,
          lo |-> (65536 - h.lo) % 65536]

\* n.toString(36) of an unsigned value
ToString36(n) ==
    LET RECURSIVE Str(_)
        Str(m) ==
            LET t == (m.hi % 36) * 65536 + m.lo
                q == [hi |-> m.hi \div 36, lo |-> t \div 36]
                d == <<Digits36[(t % 36) + 1]>>
            IN IF q.hi = 0 /\ q.lo = 0 THEN d ELSE Str(q) \o d
    IN Str(n)

\* generateId(channel), lines 170-179
GenerateId(channel) ==
    IdPrefix \o ToString36(Abs32(HashOf(channel.name \o channel.url)))

\* ------------------------------------------------------------------------
\* M3UParser.parse
\* ------------------------------------------------------------------------

\* The state of the loop: the channels pushed and currentChannel, a
\* sequence of no channel (null) or one.
ParseState(chs, cur) == [channels |-> chs, current |-> cur]

\* A loop body that puts the finished channel in front of the others
ParseLineInFront(st, raw) ==
    LET line == Trim(raw)
    IN IF line = <<>> THEN st
       ELSE IF StartsWith(line, ExtInfPrefix)
       THEN ParseState(st.channels, <<ParseExtInf(line)>>)
       ELSE IF StartsWith(line, HttpPrefix) /\ st.current # <<>>
       THEN LET c1 == [st.current[1] EXCEPT !.url = line]
            IN ParseState(<<[c1 EXCEPT !.id = GenerateId(c1)]>> \o st.channels,
                          <<>>)
       ELSE st

\* A loop body that keeps the pending channel after a URL line took it
ParseLineKeepPending(st, raw) ==
    LET line == Trim(raw)
    IN IF line = <<>> THEN st
       ELSE IF StartsWith(line, ExtInfPrefix)
       THEN ParseState(st.channels, <<ParseExtInf(line)>>)
       ELSE IF StartsWith(line, HttpPrefix) /\ st.current # <<>>
       THEN LET c1 == [st.current[1] EXCEPT !.url = line]
            IN ParseState(Append(st.channels,
                                 [c1 EXCEPT !.id = GenerateId(c1)]),
                          st.current)
       ELSE st

\* The loop body, lines 90-105, on the line raw
ParseLine(st, raw) ==
    LET line == Trim(raw)
    IN IF line = <<>> THEN st
       ELSE IF StartsWith(line, ExtInfPrefix)
       THEN ParseState(st.channels, <<ParseExtInf(line)>>)
       ELSE IF StartsWith(line, HttpPrefix) /\ st.current # <<>>
       THEN LET c1 == [st.current[1] EXCEPT !.url = line]
            IN ParseState(Append(st.channels,
                                 [c1 EXCEPT !.id = GenerateId(c1)]),
                          <<>>)
       ELSE st

\* parse(content), lines 83-109
Parse(text) ==
    LET lines == Split(text)
        RECURSIVE Loop(_)
        Loop(i) == IF i = 0 THEN ParseState(<<>>, <<>>)
                   ELSE ParseLine(Loop(i - 1), lines[i])
    IN Loop(Len(lines)).channels


\* ------------------------------------------------------------------------
\* getGroups and search (src/js/m3u-pharser.js:184-227)
\* ------------------------------------------------------------------------

\* Line 188: channel.group || 'Uncategorized'
GroupOf(channel) ==
    IF channel.group = <<>> THEN Uncategorized ELSE channel.group

\* Lines 185-194: the entries of the Map after the forEach, in insertion
\* order
GroupEntries(chs) ==
    LET RECURSIVE E(_)
        E(i) ==
            IF i = 0 THEN <<>>
            ELSE LET prev == E(i - 1)
                     g    == GroupOf(chs[i])
                     at   == {k \in 1..Len(prev) : prev[k].name = g}
                 IN IF at # {}
                    THEN [k \in 1..Len(prev) |->
                            IF k \in at
                            THEN [prev[k] EXCEPT !.count = @ + 1]
                            ELSE prev[k]]
                    ELSE Append(prev, [name |-> g, count |-> 1])
    IN E(Len(chs))

\* A sort that leaves the entries as they are
KeepOrder(entries) == entries

\* Line 198: .sort((a, b) => b.count - a.count); the sort is stable, so an
\* entry comes after the entries of greater count and after the earlier
\* entries of equal count.
SortByCount(entries) ==
    LET n == Len(entries)
        Before(i) ==
            {j \in 1..n : \/ entries[j].count > entries[i].count
                          \/ /\ entries[j].count = entries[i].count
                             /\ j < i}
    IN [k \in 1..n |->
          entries[CHOOSE i \in 1..n : Cardinality(Before(i)) = k - 1]]

\* Lines 184-199
GetGroups(chs) == SortByCount(GroupEntries(chs))

\* A filter without the passthrough
FilterAlways(chs, group) == SelectSeq(chs, LAMBDA ch : ch.group = group)

\* A filter that lets every channel through
FilterNone(chs, group) == chs

\* Lines 204-209 ('all' as characters)
FilterByGroup(chs, group) ==
    IF group = <<>> \/ group = <<"a", "l", "l">> THEN chs
    ELSE SelectSeq(chs, LAMBDA ch : ch.group = group)

\* A test that looks for sub at the start of s only
IncludesAtStart(s, sub) ==
    Len(sub) <= Len(s) /\ SubSeq(s, 1, Len(sub)) = sub

\* s.includes(sub)
Includes(s, sub) ==
    \E i \in 1..(Len(s) - Len(sub) + 1) : SubSeq(s, i, i + Len(sub) - 1) = sub

\* Lines 215-226
Search(chs, query) ==
    IF query = <<>> \/ Trim(query) = <<>> THEN <<>>
    ELSE LET searchTerm == Trim(ToLowerCase(query))
         IN SelectSeq(chs, LAMBDA channel :
               \/ Includes(ToLowerCase(channel.name), searchTerm)
               \/ Includes(ToLowerCase(channel.group), searchTerm)
               \/ /\ channel.country # <<>>
                  /\ Includes(ToLowerCase(channel.country), searchTerm)
               \/ /\ channel.language # <<>>
                  /\ Includes(ToLowerCase(channel.language), searchTerm))

\* ------------------------------------------------------------------------
\* State
\* ------------------------------------------------------------------------

VARIABLES
    surface,         \* the page as the surface query sees it
    marks,           \* the targets carrying the class 'focused'
    grid,            \* Navigation.grid
    focusedElement,  \* Navigation.focusedElement (Null: null)
    focusHistory,    \* Navigation.focusHistory
    currentRow,      \* Navigation.currentRow
    currentCol,      \* Navigation.currentCol
    currentSection,  \* Navigation.currentSection
    isPlayerActive,  \* Navigation.isPlayerActive
    timers,          \* the setTimeout callbacks pending, in firing order
    content,         \* the playlist text handed to M3UParser.parse
    channels,        \* what M3UParser.parse returned for it
    hashChannel,     \* generateId's argument
    hashStr,         \* generateId's str
    hashPos,         \* generateId's i
    hash,            \* generateId's hash, as two 16-bit halves
    hashId,          \* what generateId returned (<<>>: not returned yet)
    cache,           \* the cache entry Storage keeps in localStorage
    calls,           \* the calls of M3UParser.fetchPlaylist, by caller
    now,             \* Date.now(), in clock ticks
    expiry,          \* the expiry of the stored cache entry
    stored,          \* when and for how long it was stored (observation only)
    listing,         \* the channels handed to search and getGroups
    query,           \* the query handed to search, the group to filterByGroup
    listed,          \* what search or filterByGroup returned
    groups,          \* what getGroups returned
    favorites,       \* the favorites list Storage keeps in localStorage
    last             \* what the last handler was and did (observation only)

navVars == <<surface, marks, grid, focusedElement, focusHistory, currentRow,
             currentCol, currentSection, isPlayerActive, timers, last>>

parseVars == <<content, channels>>

hashVars == <<hashChannel, hashStr, hashPos, hash, hashId>>

fetchVars == <<cache, calls, now, expiry, stored>>

queryVars == <<listing, query, listed, groups>>

favVars == <<favorites>>

libVars == <<hashVars, fetchVars, queryVars, favVars>>

vars == <<navVars, parseVars, libVars>>

\* What a handler is seen to do: the exception it ends with, the targets it
\* dispatched a click on (in order), the section it had App show, whether it
\* reached the player's close operation, whether it assigned a new grid
\* (line 360), whether it clicked a card's favorite control; from is the
\* focused target navigate() started with and hlen the history length
\* select() started with.
Did(op, arg) ==
    [op |-> op, arg |-> arg,
     from |-> IF op = "navigate" THEN focusedElement ELSE Null,
     hlen |-> IF op = "select" THEN Len(focusHistory) ELSE 0,
     raised |-> FALSE, clicks |-> <<>>, shown |-> "",
     closed |-> FALSE, rebuilt |-> FALSE, fav |-> FALSE]

\* The methods the Player object defines (src/unnamed/part_001:6-515)
PlayerMethods ==
    {"init", "setupVideoListeners", "setupControls", "setupKeyboardShortcuts",
     "play", "togglePlayPause", "toggleMute", "setVolume", "changeVolume",
     "seek", "skip", "toggleFullscreen", "closePlayer", "updatePlayButton",
     "updateVolumeButton", "updateProgressBar", "updateDuration",
     "updateVolumeDisplay", "showControls", "hideControls", "showPlayerError",
     "formatTime"}

\* The methods the App object defines (src/js/app.js:6-430)
AppMethods ==
    {"init", "initStorage", "setupUIListeners", "loadChannels",
     "renderChannels", "playChannel", "toggleFavorite", "switchSection",
     "handlePlaylistUpload", "handlePlaylistUrlInput", "setupChannelRefresh",
     "showApp", "showError", "showMessage"}

\* document.querySelector('#player-playpause')
PlayPause == 2

\* The object literal of lines 237-258.
\* No call of generateId is under way.
HashIdle ==
    /\ hashChannel = [name |-> <<>>, url |-> <<>>]
    /\ hashStr = <<>>
    /\ hashPos = 0
    /\ hash = [hi |-> 0, lo |-> 0]
    /\ hashId = <<>>

\* The functions that call fetchPlaylist: App.loadChannels (app.js:139) and
\* App.handlePlaylistUrlInput (app.js:358)
Callers == {"loadChannels", "handlePlaylistUrlInput"}

\* null, as the value of lastError
NoError == [at |-> 0, what |-> "null"]

\* A call of fetchPlaylist that has not been made
NoCall ==
    [pc |-> "idle", url |-> "", hit |-> FALSE, tried |-> <<>>,
     lastError |-> NoError, wrote |-> 0, result |-> <<>>, error |-> NoError]

\* Nothing is cached and fetchPlaylist has not been called.
FetchIdle ==
    /\ cache = [present |-> FALSE, channels |-> <<>>]
    /\ calls = [c \in Callers |-> NoCall]
    /\ now = 0
    /\ expiry = 0
    /\ stored = [at |-> 0, hours |-> 0]

\* search and getGroups have not been called.
QueryIdle ==
    /\ listing = <<>>
    /\ query = <<>>
    /\ listed = <<>>
    /\ groups = <<>>

\* No channel has been made a favorite (Storage.getFavorites, line 122:
\* nothing stored reads as the empty list).
FavIdle == favorites = <<>>

\* The library's functions are not being called.
LibIdle == HashIdle /\ FetchIdle /\ QueryIdle /\ FavIdle

Init ==
    /\ surface \in Scenes
    /\ marks = {}
    /\ grid = <<>>
    /\ focusedElement = Null
    /\ focusHistory = <<>>
    /\ currentRow = 0
    /\ currentCol = 0
    /\ currentSection = "home"
    /\ isPlayerActive = FALSE
    /\ timers = <<>>
    /\ content = <<>>
    /\ channels = <<>>
    /\ LibIdle
    /\ last = [op |-> "new", arg |-> "", from |-> Null, hlen |-> 0,
               raised |-> FALSE, clicks |-> <<>>, shown |-> "",
               closed |-> FALSE, rebuilt |-> FALSE, fav |-> FALSE]

\* ------------------------------------------------------------------------
\* Steps shared by the handlers.  An engine value e is the part of the
\* state a click can change: [surface, grid, focus, marks].
\* ------------------------------------------------------------------------

Engine(s, g, f, m) == [surface |-> s, grid |-> g, focus |-> f, marks |-> m]

\* setFocus(el), lines 452-469
SetFocus(e, el) ==
    IF el = Null THEN e
    ELSE [e EXCEPT !.focus = el, !.marks = MarksAfterFocus(e.marks, e.focus, el)]

\* updateFocusableElements(), lines 343-381
Update(e, player) == [e EXCEPT !.grid = UpdatedGrid(e.surface, player, e.grid)]

\* focusFirst(), lines 567-573
FocusFirst(e, player) ==
    LET e1 == Update(e, player)
    IN IF Len(e1.grid) > 0 /\ Len(e1.grid[1]) > 0
       THEN SetFocus(e1, e1.grid[1][1])
       ELSE e1

\* focusElement(selector), lines 578-584, for the target the selector names
FocusElement(e, player, t) ==
    IF Attached(e.surface, t) THEN SetFocus(Update(e, player), t) ELSE e

\* App.switchSection, src/js/app.js:296-323: the page is re-laid out as s1,
\* then Navigation.updateFocusableElements() and Navigation.focusFirst().
AppSwitchSection(e, player, s1) ==
    FocusFirst(Update([e EXCEPT !.surface = s1], player), player)

\* A document without a click listener
NoDocumentClick(e, t) == e

\* The document's click listener, lines 325-330: the clicked target (its
\* closest .focusable is itself) is focused.
DocumentClick(e, t) == SetFocus(e, t)

\* t.click(): the listeners of t run first (eff = "switch": a header button
\* or a channel card, whose listeners end in App.switchSection; eff = "none":
\* a target without such a listener), then the event bubbles to the document.
Click(e, player, t, eff, s1) ==
    DocumentClick(IF eff = "switch" THEN AppSwitchSection(e, player, s1) ELSE e, t)

ClickEffects == {"none", "switch"}

\* A push that gives up the newest entry when the history is full
PushedKeepOldest(h, entry) ==
    IF Len(h) >= HistoryLimit THEN h ELSE Append(h, entry)

\* focusHistory.push(entry); if (length > 20) shift(), lines 515-523
Pushed(h, entry) ==
    LET h1 == Append(h, entry)
    IN IF Len(h1) > HistoryLimit THEN Tail(h1) ELSE h1

Here == Engine(surface, grid, focusedElement, marks)

\* The engine value e becomes the state.
Becomes(e) ==
    /\ surface' = e.surface
    /\ grid' = e.grid
    /\ focusedElement' = e.focus
    /\ marks' = e.marks

\* ------------------------------------------------------------------------
\* The handlers
\* ------------------------------------------------------------------------

\* A navigate that does not look at the grid again after rebuilding it
NavigateUnchecked(dir) ==
    LET g1 == IF Len(grid) = 0
              THEN UpdatedGrid(surface, isPlayerActive, grid) ELSE grid
        st == NavStep(g1, focusedElement, currentRow, currentCol, dir)
        e1 == [Here EXCEPT !.grid = g1]
    IN /\ Becomes(IF st.next # Null /\ st.next # focusedElement
                  THEN SetFocus(e1, st.next) ELSE e1)
       /\ currentRow' = st.row
       /\ currentCol' = st.col
       /\ last' = [Did("navigate", dir) EXCEPT
                      !.raised = st.raised, !.rebuilt = Len(grid) = 0]
       /\ UNCHANGED <<focusHistory, currentSection, isPlayerActive,
                      timers, parseVars, libVars>>

\* navigate(direction), lines 386-447
NavigateDir(dir) ==
    LET g1 == IF Len(grid) = 0
              THEN UpdatedGrid(surface, isPlayerActive, grid) ELSE grid
        e1 == [Here EXCEPT !.grid = g1]
    IN IF Len(g1) = 0
       THEN /\ last' = Did("navigate", dir)
            /\ UNCHANGED <<surface, marks, grid, focusedElement,
                           focusHistory, currentRow, currentCol,
                           currentSection, isPlayerActive, timers, parseVars, libVars>>
       ELSE LET st == NavStep(g1, focusedElement, currentRow, currentCol, dir)
                e2 == IF st.next # Null /\ st.next # focusedElement
                      THEN SetFocus(e1, st.next) ELSE e1
            IN /\ Becomes(e2)
               /\ currentRow' = st.row
               /\ currentCol' = st.col
               /\ last' = [Did("navigate", dir) EXCEPT
                              !.raised = st.raised,
                              !.rebuilt = Len(grid) = 0]
               /\ UNCHANGED <<focusHistory, currentSection, isPlayerActive,
                              timers, parseVars, libVars>>

Navigate == \E dir \in Directions : NavigateDir(dir)

\* select(), lines 508-524.  S: the renderings a click's listeners may leave.
Select(S) ==
       IF focusedElement = Null
       THEN /\ last' = Did("select", "")
            /\ UNCHANGED <<surface, marks, grid, focusedElement,
                           focusHistory, currentRow, currentCol,
                           currentSection, isPlayerActive, timers, parseVars, libVars>>
       ELSE \E eff \in ClickEffects :
            \E s1 \in (IF eff = "switch" THEN S ELSE {surface}) :
               LET e == Click(Here, isPlayerActive, focusedElement, eff, s1)
               IN /\ Becomes(e)
                  /\ focusHistory' =
                        Pushed(focusHistory,
                               [element |-> e.focus, section |-> currentSection])
                  /\ last' = [Did("select", "") EXCEPT
                                 !.clicks = <<focusedElement>>,
                                 !.rebuilt = eff = "switch" /\ s1.anchor]
                  /\ UNCHANGED <<currentRow, currentCol, currentSection,
                                 isPlayerActive, timers, parseVars, libVars>>

\* back(), lines 529-549.  window.Player.close and window.App.showSection
\* are calls of methods: a TypeError when the object defines none of that
\* name.
Back ==
    IF isPlayerActive
    THEN /\ last' = [Did("back", "") EXCEPT
                        !.raised = "close" \notin PlayerMethods,
                        !.closed = "close" \in PlayerMethods]
         /\ UNCHANGED <<surface, marks, grid, focusedElement, focusHistory,
                        currentRow, currentCol, currentSection,
                        isPlayerActive, timers, parseVars, libVars>>
    ELSE IF currentSection # "home"
    THEN /\ last' = [Did("back", "") EXCEPT
                        !.raised = "showSection" \notin AppMethods,
                        !.shown = IF "showSection" \in AppMethods
                                  THEN "home" ELSE ""]
         /\ UNCHANGED <<surface, marks, grid, focusedElement, focusHistory,
                        currentRow, currentCol, currentSection,
                        isPlayerActive, timers, parseVars, libVars>>
    ELSE IF Len(focusHistory) > 0
    THEN LET top == focusHistory[Len(focusHistory)]
             e == IF top.element # Null /\ Attached(surface, top.element)
                  THEN SetFocus(Here, top.element) ELSE Here
         IN /\ focusHistory' = SubSeq(focusHistory, 1, Len(focusHistory) - 1)
            /\ Becomes(e)
            /\ last' = Did("back", "")
            /\ UNCHANGED <<currentRow, currentCol, currentSection,
                           isPlayerActive, timers, parseVars, libVars>>
    ELSE /\ last' = Did("back", "")
         /\ UNCHANGED <<surface, marks, grid, focusedElement, focusHistory,
                        currentRow, currentCol, currentSection,
                        isPlayerActive, timers, parseVars, libVars>>

\* The channel cards App.renderChannels builds (src/js/app.js:186-238) are
\* the section's targets; a card holds these controls.
IsChannelCard(t) == t >= 3

CardControls ==
    { [class |-> "play-btn", action |-> ""],
      [class |-> "favorite-btn", action |-> ""] }

\* toggleFavorite(), lines 554-562
ToggleFavorite ==
    LET card == focusedElement # Null /\ IsChannelCard(focusedElement)
        btn  == card /\ \E c \in CardControls : c.action = "favorite"
    IN /\ last' = [Did("toggleFavorite", "") EXCEPT !.fav = btn]
       /\ UNCHANGED <<surface, marks, grid, focusedElement, focusHistory,
                      currentRow, currentCol, currentSection, isPlayerActive,
                      timers, parseVars, libVars>>

\* setSection(section), lines 589-595
SetSection ==
    /\ Len(timers) < MaxTimers
    /\ \E s \in Sections :
          /\ currentSection' = s
          /\ last' = Did("setSection", s)
    /\ timers' = Append(timers, "setSection")
    /\ UNCHANGED <<surface, marks, grid, focusedElement, focusHistory,
                   currentRow, currentCol, isPlayerActive, parseVars, libVars>>

\* enterPlayerMode(), lines 600-606
EnterPlayerMode ==
    /\ Len(timers) < MaxTimers
    /\ isPlayerActive' = TRUE
    /\ timers' = Append(timers, "enterPlayerMode")
    /\ last' = Did("enterPlayerMode", "")
    /\ UNCHANGED <<surface, marks, grid, focusedElement, focusHistory,
                   currentRow, currentCol, currentSection, parseVars, libVars>>

\* exitPlayerMode(), lines 611-616
ExitPlayerMode ==
    /\ Len(timers) < MaxTimers
    /\ isPlayerActive' = FALSE
    /\ timers' = Append(timers, "exitPlayerMode")
    /\ last' = Did("exitPlayerMode", "")
    /\ UNCHANGED <<surface, marks, grid, focusedElement, focusHistory,
                   currentRow, currentCol, currentSection, parseVars, libVars>>

\* The callback a timer runs (lines 591-594, 602-605, 613-615)
TimerBody(e, player, task) ==
    CASE task = "setSection"      -> FocusFirst(Update(e, player), player)
      [] task = "enterPlayerMode" -> FocusElement(Update(e, player), player, PlayPause)
      [] task = "exitPlayerMode"  -> Update(e, player)

\* The oldest pending timer fires (all have the same delay).
TimerFire ==
    /\ Len(timers) > 0
    /\ Becomes(TimerBody(Here, isPlayerActive, Head(timers)))
    /\ timers' = Tail(timers)
    /\ last' = [Did("timer", Head(timers)) EXCEPT !.rebuilt = surface.anchor]
    /\ UNCHANGED <<focusHistory, currentRow, currentCol, currentSection,
                   isPlayerActive, parseVars, libVars>>

\* The page changes under the engine: a scroll, a resize, a re-render.
SurfaceChange(S) ==
    /\ \E s1 \in S \ {surface} : surface' = s1
    /\ last' = Did("surface", "")
    /\ UNCHANGED <<marks, grid, focusedElement, focusHistory, currentRow,
                   currentCol, currentSection, isPlayerActive, timers,
                   parseVars, libVars>>

\* App.renderChannels, src/js/app.js:157-244: the cards are rendered anew,
\* then Navigation.updateFocusableElements().
RenderChannels ==
    /\ \E s1 \in Scenes :
          /\ Becomes(Update([Here EXCEPT !.surface = s1], isPlayerActive))
          /\ last' = [Did("renderChannels", "") EXCEPT !.rebuilt = s1.anchor]
    /\ UNCHANGED <<focusHistory, currentRow, currentCol, currentSection,
                   isPlayerActive, timers, parseVars, libVars>>

\* App.switchSection called outside a click on a target (Navigation.init()
\* is its second half: updateFocusableElements(); focusFirst()).
SwitchSection ==
    /\ \E s1 \in Scenes :
          /\ Becomes(AppSwitchSection(Here, isPlayerActive, s1))
          /\ last' = [Did("switchSection", "") EXCEPT !.rebuilt = s1.anchor]
    /\ UNCHANGED <<focusHistory, currentRow, currentCol, currentSection,
                   isPlayerActive, timers, parseVars, libVars>>

\* A mouse click or touch on an attached target
MouseClick ==
    /\ \E t \in Targets, eff \in ClickEffects :
       \E s1 \in (IF eff = "switch" THEN Scenes ELSE {surface}) :
          /\ Attached(surface, t)
          /\ Becomes(Click(Here, isPlayerActive, t, eff, s1))
          /\ last' = [Did("click", "") EXCEPT
                         !.clicks = <<t>>, !.rebuilt = eff = "switch" /\ s1.anchor]
    /\ UNCHANGED <<focusHistory, currentRow, currentCol, currentSection,
                   isPlayerActive, timers, parseVars, libVars>>

\* Navigation by keys and mouse on a page that changes and is re-rendered.
Next ==
    \/ Navigate
    \/ ToggleFavorite
    \/ SurfaceChange(Scenes)
    \/ RenderChannels
    \/ SwitchSection
    \/ MouseClick

Spec == Init /\ [][Next]_vars

\* The key handlers alone, on a page that changes.
NextKeys ==
    \/ Navigate
    \/ (Len(focusHistory) < MaxHist /\ Select(Scenes))
    \/ Back
    \/ ToggleFavorite
    \/ SurfaceChange(Scenes)

SpecKeys == Init /\ [][NextKeys]_vars

\* Mode and section switches with their settle timers, select() and back(),
\* on a page that is either rendered in two columns or holds no target.
ModeScenes == {Scene(TRUE, 2, NumTargets - 2, 0, FALSE), EmptyScene(TRUE)}

InitMode == Init /\ surface \in ModeScenes

NextMode ==
    \/ SetSection
    \/ EnterPlayerMode
    \/ ExitPlayerMode
    \/ TimerFire
    \/ (Len(focusHistory) < MaxHist /\ Select(ModeScenes))
    \/ Back
    \/ SurfaceChange(ModeScenes)

SpecMode == InitMode /\ [][NextMode]_vars

\* select() and back() on one rendering, with navigate('right') to move the
\* focus: the history fills to its limit.
HistScenes == {Scene(TRUE, 2, NumTargets - 2, 0, FALSE)}

InitHist == Init /\ surface \in HistScenes

NextHist ==
    \/ NavigateDir("right")
    \/ Select(HistScenes)
    \/ Back

SpecHist == InitHist /\ [][NextHist]_vars

\* The key handlers and the mode switches on a page that has no target, no
\* active section, or both.
IdleScenes ==
    { EmptyScene(TRUE), EmptyScene(FALSE),
      Scene(FALSE, 2, NumTargets - 2, 0, FALSE) }

InitIdle == Init /\ surface \in IdleScenes

NextIdle ==
    \/ Navigate
    \/ (Len(focusHistory) < MaxHist /\ Select(IdleScenes))
    \/ Back
    \/ ToggleFavorite
    \/ SetSection
    \/ EnterPlayerMode
    \/ ExitPlayerMode
    \/ TimerFire
    \/ SurfaceChange(IdleScenes)

SpecIdle == InitIdle /\ [][NextIdle]_vars

\* The mode and section switches and their settle timers on a page that is
\* rendered in two columns, has no active section, or holds no target.  A
\* callback passed to setTimeout is run by the event loop once its delay has
\* passed: a pending timer does fire.  TimerDue is the part of TimerFire
\* that is seen on the timer queue; no other step takes a timer off it.
SettleScenes ==
    { Scene(TRUE, 2, NumTargets - 2, 0, FALSE),
      Scene(FALSE, 2, NumTargets - 2, 0, FALSE),
      EmptyScene(TRUE) }

InitSettle == Init /\ surface \in SettleScenes

NextSettle ==
    \/ SetSection
    \/ EnterPlayerMode
    \/ ExitPlayerMode
    \/ TimerFire
    \/ SurfaceChange(SettleScenes)

TimerDue == Len(timers) > 0 /\ timers' = Tail(timers)

SpecSettle == InitSettle /\ [][NextSettle]_vars /\ WF_timers(TimerDue)

\* M3UParser.parse applied to a playlist text (called by fetchPlaylist,
\* lines 48 and 67, and by App.handlePlaylistUpload, src/js/app.js:334).
ParseContent ==
    /\ channels' = Parse(content)
    /\ last' = Did("parse", "")
    /\ UNCHANGED <<surface, marks, grid, focusedElement, focusHistory,
                   currentRow, currentCol, currentSection, isPlayerActive,
                   timers, content, libVars>>

\* The lines playlist texts are made of: two metadata lines (the second
\* indented, with an attribute), two URL lines (the second ending in a
\* carriage return), an empty line and a comment line.
LinePool ==
    { <<"#", "E", "X", "T", "I", "N", "F", ":", "-", "1", ",", "a">>,
      <<" ", "#", "E", "X", "T", "I", "N", "F", ":", "0", " ", "t", "v", "g", "-", "i", "d", "=", DQ, "b", DQ, ",", "b">>,
      <<"h", "t", "t", "p", ":", "/", "/", "a">>,
      <<"h", "t", "t", "p", "s", ":", "/", "/", "b", CR>>,
      <<>>,
      <<"#", "a">> }

\* lines.join('\n')
Join(lines) ==
    LET RECURSIVE J(_)
        J(i) == IF i = 0 THEN <<>>
                ELSE IF i = 1 THEN lines[1]
                ELSE J(i - 1) \o <<LF>> \o lines[i]
    IN J(Len(lines))

\* The playlist texts of at most MaxLines lines
Contents ==
    {<<>>} \cup
    UNION {{Join(ls) : ls \in [1..n -> LinePool]} : n \in 1..MaxLines}

InitParse ==
    /\ surface = EmptyScene(TRUE)
    /\ marks = {}
    /\ grid = <<>>
    /\ focusedElement = Null
    /\ focusHistory = <<>>
    /\ currentRow = 0
    /\ currentCol = 0
    /\ currentSection = "home"
    /\ isPlayerActive = FALSE
    /\ timers = <<>>
    /\ content \in Contents
    /\ channels = <<>>
    /\ LibIdle
    /\ last = [op |-> "new", arg |-> "", from |-> Null, hlen |-> 0,
               raised |-> FALSE, clicks |-> <<>>, shown |-> "",
               closed |-> FALSE, rebuilt |-> FALSE, fav |-> FALSE]

NextParse == ParseContent

SpecParse == InitParse /\ [][NextParse]_vars

\* updateFocusableElements() called on its own, lines 343-381
UpdateFocusableElements ==
    /\ Becomes(Update(Here, isPlayerActive))
    /\ last' = [Did("updateFocusableElements", "") EXCEPT
                   !.rebuilt = surface.anchor]
    /\ UNCHANGED <<focusHistory, currentRow, currentCol, currentSection,
                   isPlayerActive, timers, parseVars, libVars>>

\* The grid builder on every geometry: each header button and card is
\* detached or has its top among GridTops and its left among GridLefts; its
\* scope is that of LayoutPlace.
GridTops == {-10, 10, 70, 90}

GridLefts == {0, 100}

ScopeOf(t) == LayoutPlace(t, 1, NumTargets, 0, FALSE).scope

GridShapes ==
    {[shown |-> FALSE, top |-> 0, left |-> 0]} \cup
    {[shown |-> TRUE, top |-> top, left |-> left] :
        top \in GridTops, left \in GridLefts}

GridSurface(sh) ==
    [anchor |-> TRUE,
     place  |-> [t \in Targets |->
                    IF sh[t].shown
                    THEN Place(ScopeOf(t), sh[t].top, sh[t].left) ELSE Gone]]

\* The player's control is detached or at its one place in the overlay.
InitGrid ==
    /\ surface \in {GridSurface(sh) :
                       sh \in {f \in [Targets -> GridShapes] :
                                 f[PlayPause].shown =>
                                    f[PlayPause].top = 10 /\ f[PlayPause].left = 0}}
    /\ marks = {}
    /\ grid = <<>>
    /\ focusedElement = Null
    /\ focusHistory = <<>>
    /\ currentRow = 0
    /\ currentCol = 0
    /\ currentSection = "home"
    /\ isPlayerActive \in BOOLEAN
    /\ timers = <<>>
    /\ content = <<>>
    /\ channels = <<>>
    /\ LibIdle
    /\ last = [op |-> "new", arg |-> "", from |-> Null, hlen |-> 0,
               raised |-> FALSE, clicks |-> <<>>, shown |-> "",
               closed |-> FALSE, rebuilt |-> FALSE, fav |-> FALSE]

NextGrid == UpdateFocusableElements

SpecGrid == InitGrid /\ [][NextGrid]_vars

\* ------------------------------------------------------------------------
\* generateId, one loop iteration at a time
\* ------------------------------------------------------------------------

\* The navigation object and the parser as they are after construction,
\* on a page with no focusable target
NavIdle ==
    /\ surface = EmptyScene(TRUE)
    /\ marks = {}
    /\ grid = <<>>
    /\ focusedElement = Null
    /\ focusHistory = <<>>
    /\ currentRow = 0
    /\ currentCol = 0
    /\ currentSection = "home"
    /\ isPlayerActive = FALSE
    /\ timers = <<>>
    /\ last = [op |-> "new", arg |-> "", from |-> Null, hlen |-> 0,
               raised |-> FALSE, clicks |-> <<>>, shown |-> "",
               closed |-> FALSE, rebuilt |-> FALSE, fav |-> FALSE]

\* parse has not been called.
ParseIdle ==
    /\ content = <<>>
    /\ channels = <<>>

\* focusFirst() called on its own, lines 567-573
FocusFirstCall ==
    /\ Becomes(FocusFirst(Here, isPlayerActive))
    /\ last' = [Did("focusFirst", "") EXCEPT !.rebuilt = surface.anchor]
    /\ UNCHANGED <<focusHistory, currentRow, currentCol, currentSection,
                   isPlayerActive, timers, parseVars, libVars>>

\* focusFirst() and a run of navigate('right') on a page that does not
\* change: each header button and card is detached or at one of two tops
\* and two lefts.
InitSweep ==
    /\ surface \in {GridSurface(sh) :
                       sh \in {f \in [Targets -> GridShapes] :
                                 /\ \A t \in Targets :
                                       f[t].shown => f[t].top \in {10, 90}
                                 /\ f[PlayPause].shown => f[PlayPause].left = 0}}
    /\ marks = {}
    /\ grid = <<>>
    /\ focusedElement = Null
    /\ focusHistory = <<>>
    /\ currentRow = 0
    /\ currentCol = 0
    /\ currentSection = "home"
    /\ isPlayerActive = FALSE
    /\ timers = <<>>
    /\ ParseIdle
    /\ LibIdle
    /\ last = [op |-> "new", arg |-> "", from |-> Null, hlen |-> 0,
               raised |-> FALSE, clicks |-> <<>>, shown |-> "",
               closed |-> FALSE, rebuilt |-> FALSE, fav |-> FALSE]

NextSweep ==
    \/ FocusFirstCall
    \/ NavigateDir("right")

SpecSweep == InitSweep /\ [][NextSweep]_vars

\* The arrow keys on a page that is empty at first, then has its cards in
\* one row of three and is rendered anew with the first card only (a
\* shorter list of channels), updateFocusableElements() being called as
\* App.renderChannels does.
ShrinkScenes ==
    { Scene(TRUE, 3, NumTargets - 2, 0, FALSE),
      Scene(TRUE, 3, 1, 0, FALSE) }

InitShrink == NavIdle /\ ParseIdle /\ LibIdle

NextShrink ==
    \/ Navigate
    \/ UpdateFocusableElements
    \/ SurfaceChange(ShrinkScenes)

SpecShrink == InitShrink /\ [][NextShrink]_vars

navState == <<surface, marks, grid, focusedElement, focusHistory, currentRow,
              currentCol, currentSection, isPlayerActive, timers>>

\* Lines 172-176: one iteration of the loop
GenerateIdStep ==
    /\ hashId = <<>>
    /\ hashPos < Len(hashStr)
    /\ hash' = HashStep(hash, CharCode(hashStr[hashPos + 1]))
    /\ hashPos' = hashPos + 1
    /\ last' = Did("hash", "")
    /\ UNCHANGED <<navState, parseVars, hashChannel, hashStr, hashId,
                   fetchVars, queryVars, favVars>>

\* Line 177, reached when the loop is over
GenerateIdReturn ==
    /\ hashId = <<>>
    /\ hashPos = Len(hashStr)
    /\ hashId' = IdPrefix \o ToString36(Abs32(hash))
    /\ last' = Did("generateId", "")
    /\ UNCHANGED <<navState, parseVars, hashChannel, hashStr, hashPos, hash,
                   fetchVars, queryVars, favVars>>

\* A name whose accumulator ends at the least 32-bit integer
MinIntName == <<"x", "f", "j", "f", "x", "t", "f">>

\* The names of at most MaxStr characters 'z' and '0', and the name above
HashNames ==
    {<<>>, MinIntName} \cup
    UNION {[1..n -> {"z", "0"}] : n \in 1..MaxStr}

\* generateId has been called and has read its argument (line 170).
InitHash ==
    /\ NavIdle
    /\ ParseIdle
    /\ FetchIdle
    /\ QueryIdle
    /\ FavIdle
    /\ hashChannel \in [name : HashNames,
                         url : {<<>>, <<"/">>, <<"0", "z">>}]
    /\ hashStr = hashChannel.name \o hashChannel.url
    /\ hashPos = 0
    /\ hash = [hi |-> 0, lo |-> 0]
    /\ hashId = <<>>

NextHash ==
    \/ GenerateIdStep
    \/ GenerateIdReturn

SpecHash == InitHash /\ [][NextHash]_vars

\* ------------------------------------------------------------------------
\* parse on one metadata line and its URL line
\* ------------------------------------------------------------------------

\* The ways a metadata line carries a tvg-name attribute: not at all, empty,
\* non-empty, and spelled in another case
TvgNameForms ==
    { [text |-> <<>>,
       present |-> FALSE, value |-> <<>>],
      [text |-> <<" ", "t", "v", "g", "-", "n", "a", "m", "e", "=", DQ, DQ>>,
       present |-> TRUE, value |-> <<>>],
      [text |-> <<" ", "t", "v", "g", "-", "n", "a", "m", "e", "=", DQ, "x", DQ>>,
       present |-> TRUE, value |-> <<"x">>],
      [text |-> <<" ", "T", "V", "G", "-", "N", "a", "m", "e", "=", DQ, "y", " ", "z", DQ>>,
       present |-> TRUE, value |-> <<"y", " ", "z">>] }

\* The ways a metadata line carries a title: no comma, nothing after the
\* comma, a title, the title 'Unknown Channel', a title after a space, a
\* title of two words (value: the title without the space around it)
TitleForms ==
    { [text |-> <<>>,
       present |-> FALSE, value |-> <<>>],
      [text |-> <<",">>,
       present |-> TRUE, value |-> <<>>],
      [text |-> <<",", "t">>,
       present |-> TRUE, value |-> <<"t">>],
      [text |-> <<",", "U", "n", "k", "n", "o", "w", "n", " ", "C", "h", "a", "n", "n", "e", "l">>,
       present |-> TRUE, value |-> <<"U", "n", "k", "n", "o", "w", "n", " ", "C", "h", "a", "n", "n", "e", "l">>],
      [text |-> <<",", " ", "a">>,
       present |-> TRUE, value |-> <<"a">>],
      [text |-> <<",", "a", " ", "b">>,
       present |-> TRUE, value |-> <<"a", " ", "b">>] }

\* The durations and the other attributes of the lines
DurationForms == {<<"-", "1">>, <<"0">>}

GroupForms ==
    {<<>>,
     <<" ", "g", "r", "o", "u", "p", "-", "t", "i", "t", "l", "e", "=", DQ, "g", DQ>>}

\* The playlist text of the metadata line of a duration, a group, a
\* tvg-name and a title, and of a URL line
ExtInfText(dur, grp, tvg, title) ==
    ExtInfPrefix \o dur \o grp \o tvg.text \o title.text \o <<LF>> \o
    <<"h", "t", "t", "p", ":", "/", "/", "a">>

ExtInfContents ==
    {ExtInfText(dur, grp, tvg, title) :
        dur \in DurationForms, grp \in GroupForms,
        tvg \in TvgNameForms, title \in TitleForms}

\* parse is about to be called on one of the texts.
InitExtInf ==
    /\ NavIdle
    /\ content \in ExtInfContents
    /\ channels = <<>>
    /\ LibIdle

SpecExtInf == InitExtInf /\ [][NextParse]_vars

\* ------------------------------------------------------------------------
\* parse on metadata lines with several commas
\* ------------------------------------------------------------------------

\* The metadata lines made of a duration, a group-title, a tvg-name and a
\* title. group-title attributes: none, one without a comma, one whose
\* quoted value holds a comma. Titles: none, one word, one after a space,
\* and two that hold a comma. tvg-name attributes: none and one.
CommaLines ==
    LET CommaGroupForms ==
            {<<>>,
             <<" ", "g", "r", "o", "u", "p", "-", "t", "i", "t", "l", "e", "=", DQ, "g", DQ>>,
             <<" ", "g", "r", "o", "u", "p", "-", "t", "i", "t", "l", "e", "=", DQ, "g", ",", "h", DQ>>}
        CommaTitleForms ==
            {<<>>,
             <<",", "t">>,
             <<",", " ", "a">>,
             <<",", "a", ",", "b">>,
             <<",", "c", ",", " ", "d">>}
        CommaTvgForms ==
            {<<>>,
             <<" ", "t", "v", "g", "-", "n", "a", "m", "e", "=", DQ, "x", DQ>>}
    IN  {ExtInfPrefix \o dur \o grp \o tvg \o title :
            dur \in DurationForms, grp \in CommaGroupForms,
            tvg \in CommaTvgForms, title \in CommaTitleForms}

\* The playlist text of a metadata line and a URL line
CommaText(line) == line \o <<LF>> \o HttpPrefix

\* parse is about to be called on one of the texts.
InitComma ==
    /\ NavIdle
    /\ content \in {CommaText(line) : line \in CommaLines}
    /\ channels = <<>>
    /\ LibIdle

SpecComma == InitComma /\ [][NextParse]_vars

\* ------------------------------------------------------------------------
\* fetchPlaylist (src/js/m3u-pharser.js:20-78), one suspension at a time
\* ------------------------------------------------------------------------

\* Line 8
PLAYLIST_URL == "https://iptv-org.github.io/iptv/index.m3u8"

\* A list that has the direct request first
ProxiesDirectFirst ==
    <<"", "https://corsproxy.io/?", "https://api.allorigins.win/raw?url=">>

\* Lines 11-15 ('' is the direct request)
CORS_PROXIES ==
    <<"https://corsproxy.io/?", "https://api.allorigins.win/raw?url=", "">>

\* Line 61
PhpProxy == "php/proxy.php?url="

\* Line 77: new Error('Failed to fetch playlist')
FailedToFetch == [at |-> 0, what |-> "Failed to fetch playlist"]

\* A test that takes every cached sequence, the empty one included
CacheHitIfPresent(cached) == cached.present

\* Line 23: cached && cached.length > 0
CacheHit(cached) == cached.present /\ Len(cached.channels) > 0

\* A test that takes every parsed sequence, the empty one included
YieldsAlways(chs) == Len(chs) >= 0

\* Lines 51 and 68: channels.length > 0
Yields(chs) == Len(chs) > 0

\* Lines 35 and 61: fetch(...) through the prefix, now outstanding
Issue(call, prefix) ==
    [call EXCEPT !.pc = "fetch",
                 !.tried = Append(@, [to |-> prefix, outcome |-> "pending",
                                      body |-> <<>>])]

\* The attempt under way is in the loop of lines 31-58.
InLoop(call) == Len(call.tried) <= Len(CORS_PROXIES)

\* The attempt under way ends with the outcome.
Settled(call, outcome, body) ==
    [call EXCEPT !.tried[Len(call.tried)] =
                     [@ EXCEPT !.outcome = outcome, !.body = body]]

\* What follows an attempt that did not return: the next prefix of the loop,
\* the PHP proxy after the loop (line 61), the throw after it (line 77).
NextStrategy(call) ==
    LET n == Len(call.tried)
    IN IF n < Len(CORS_PROXIES) THEN Issue(call, CORS_PROXIES[n + 1])
       ELSE IF n = Len(CORS_PROXIES) THEN Issue(call, PhpProxy)
       ELSE [call EXCEPT !.pc = "raised",
                         !.error = IF call.lastError # NoError
                                   THEN call.lastError ELSE FailedToFetch]

\* The attempt under way fails with an error: the loop's catch stores it
\* (lines 55-57), the PHP proxy's catch only logs it (lines 73-75).
Failed(call, what) ==
    LET c1 == Settled(call, what, <<>>)
    IN NextStrategy(IF InLoop(call)
                    THEN [c1 EXCEPT !.lastError =
                                       [at |-> Len(call.tried), what |-> what]]
                    ELSE c1)

\* A test that takes the entry for expired at its expiry time already
ExpiredAtExpiry(t, exp) == t >= exp

\* src/unnamed/part_000:273  Date.now() > cacheData.expiry
Expired(t, exp) == t > exp

\* Storage.getCachedChannels() (src/unnamed/part_000:267-283): the entry as
\* it is after the read, which is also what the read returns (an expired
\* entry is removed and null returned).
GetCachedChannels ==
    IF cache.present /\ Expired(now, expiry)
    THEN [present |-> FALSE, channels |-> <<>>]
    ELSE cache

\* Storage.cacheChannels(channels, expiryHours) (src/unnamed/part_000:250-262)
Store(chs, expiryHours) ==
    /\ cache' = [present |-> TRUE, channels |-> chs]
    /\ expiry' = now + expiryHours * TicksPerHour
    /\ stored' = [at |-> now, hours |-> expiryHours]

\* Lines 20-35: the call, up to its return on a cache hit or to its first
\* request.
FetchPlaylist(c, url) ==
    /\ calls[c].pc = "idle"
    /\ cache' = GetCachedChannels
    /\ expiry' = IF cache'.present THEN expiry ELSE 0
    /\ calls' = [calls EXCEPT ![c] =
                   IF CacheHit(GetCachedChannels)
                   THEN [NoCall EXCEPT !.pc = "returned", !.url = url,
                                       !.hit = TRUE,
                                       !.result = GetCachedChannels.channels]
                   ELSE NextStrategy([NoCall EXCEPT !.url = url])]
    /\ last' = Did("fetchPlaylist", c)
    /\ UNCHANGED <<navState, parseVars, hashVars, favVars, queryVars, now, stored>>

\* The response bodies: an empty one, and a playlist of one channel
FetchBodies ==
    {<<>>,
     <<"#", "E", "X", "T", "I", "N", "F", ":", "-", "1", ",", "a", LF, "h", "t", "t", "p", ":", "/", "/", "a">>}

\* Line 48 and 66: this.parse(content), for each body
ParsedBody == [body \in FetchBodies |-> Parse(body)]

\* The outstanding request of the call resolves to a response that is not
\* ok (lines 43-45: thrown in the loop; line 64: skipped after it) or to one
\* that is, whose text is then awaited (lines 47 and 65).
FetchSettles(c, ok) ==
    /\ calls[c].pc = "fetch"
    /\ calls' = [calls EXCEPT ![c] =
                   IF ok THEN [calls[c] EXCEPT !.pc = "text"]
                   ELSE IF InLoop(calls[c]) THEN Failed(calls[c], "status")
                   ELSE NextStrategy(Settled(calls[c], "status", <<>>))]
    /\ last' = Did("fetch settles", c)
    /\ UNCHANGED <<navState, parseVars, hashVars, favVars, queryVars, cache, now,
                   expiry, stored>>

\* fetch(...) or response.text() rejects.
Rejects(c) ==
    /\ calls[c].pc \in {"fetch", "text"}
    /\ calls' = [calls EXCEPT ![c] = Failed(calls[c], "reject")]
    /\ last' = Did("rejects", c)
    /\ UNCHANGED <<navState, parseVars, hashVars, favVars, queryVars, cache, now,
                   expiry, stored>>

\* response.text() resolves to the body: lines 48-54 and 66-71.
TextSettles(c, body) ==
    LET chs == ParsedBody[body]
    IN /\ calls[c].pc = "text"
       /\ IF Yields(chs)
          THEN /\ Store(chs, 1)
               /\ calls' = [calls EXCEPT ![c] =
                              [Settled(calls[c], "channels", body)
                                 EXCEPT !.pc = "returned",
                                        !.wrote = @ + 1,
                                        !.result = chs]]
          ELSE /\ UNCHANGED <<cache, expiry, stored>>
               /\ calls' = [calls EXCEPT ![c] =
                              NextStrategy(Settled(calls[c], "empty", body))]
       /\ last' = Did("text settles", c)
       /\ UNCHANGED <<navState, parseVars, hashVars, favVars, queryVars, now>>

\* What an earlier visit may have left in the cache
CachedBefore ==
    Parse(<<"#", "E", "X", "T", "I", "N", "F", ":", "-", "1", ",", "b", LF, "h", "t", "t", "p", ":", "/", "/", "b">>)

\* The url each caller passes: the default, or what the user types at the
\* prompt (app.js:354)
UrlsOf(c) == IF c = "loadChannels" THEN {PLAYLIST_URL} ELSE {"http://u"}

\* The page is loading: the cache is absent, empty or left by an earlier
\* visit.
InitFetch ==
    /\ NavIdle
    /\ ParseIdle
    /\ HashIdle
    /\ QueryIdle
    /\ FavIdle
    /\ cache \in {[present |-> FALSE, channels |-> <<>>],
                  [present |-> TRUE, channels |-> <<>>],
                  [present |-> TRUE, channels |-> CachedBefore]}
    /\ calls = [c \in Callers |-> NoCall]
    /\ now = 0
    /\ expiry = IF cache.present THEN TicksPerHour ELSE 0
    /\ stored = [at |-> 0, hours |-> IF cache.present THEN 1 ELSE 0]

NextFetch ==
    \/ \E c \in Callers : \E url \in UrlsOf(c) : FetchPlaylist(c, url)
    \/ \E c \in Callers : \E ok \in BOOLEAN : FetchSettles(c, ok)
    \/ \E c \in Callers : Rejects(c)
    \/ \E c \in Callers : \E body \in FetchBodies : TextSettles(c, body)

SpecFetch == InitFetch /\ [][NextFetch]_vars

\* ------------------------------------------------------------------------
\* search and getGroups on a list of channels
\* ------------------------------------------------------------------------

SearchChannels ==
    /\ listed' = Search(listing, query)
    /\ last' = Did("search", "")
    /\ UNCHANGED <<navState, parseVars, hashVars, favVars, fetchVars, listing, query,
                   groups>>

GetGroupsOfChannels ==
    /\ groups' = GetGroups(listing)
    /\ last' = Did("getGroups", "")
    /\ UNCHANGED <<navState, parseVars, hashVars, favVars, fetchVars, listing, query,
                   listed>>

FilterChannels ==
    /\ listed' = FilterByGroup(listing, query)
    /\ last' = Did("filterByGroup", "")
    /\ UNCHANGED <<navState, parseVars, hashVars, favVars, fetchVars, listing, query,
                   groups>>

\* Channels as the parser makes them: 'ab' in the name, in the group, in
\* the country or in the language (in either case), or nowhere; the groups
\* are x (twice), aB, y, the default and one named all.
ChannelPool ==
    { [NewChannel EXCEPT !.name = <<"A", "b">>, !.group = <<"x">>,
                        !.country = <<>>, !.language = <<>>],
      [NewChannel EXCEPT !.name = <<"c">>, !.group = <<"a", "B">>,
                        !.country = <<>>, !.language = <<>>],
      [NewChannel EXCEPT !.name = <<"c">>, !.group = <<"x">>,
                        !.country = <<"A", "B">>, !.language = <<>>],
      [NewChannel EXCEPT !.name = <<"d">>, !.group = <<"y">>,
                        !.country = <<>>, !.language = <<"a", "b">>],
      [NewChannel EXCEPT !.name = <<"e">>, !.group = <<"a", "l", "l">>,
                        !.country = <<>>, !.language = <<>>],
      [NewChannel EXCEPT !.name = <<"d">>, !.group = <<"U", "n", "c", "a", "t", "e", "g", "o", "r", "i", "z", "e", "d">>,
                        !.country = <<>>, !.language = <<>>] }

\* The lists of at most MaxChannels of them
ChannelLists == UNION {[1..n -> ChannelPool] : n \in 0..MaxChannels}

\* The queries: empty, white space, terms in either case, padded or not,
\* and 'all'
Queries ==
    { <<>>,
      <<"a", "l", "l">>,
      <<"a", "B">>,
      <<" ">>,
      <<"a", "b">>,
      <<" ", "A", "B", " ">>,
      <<"b">>,
      <<"x">>,
      <<"z">>,
      <<"a", " ", "b">> }

InitQuery ==
    /\ NavIdle
    /\ ParseIdle
    /\ HashIdle
    /\ FetchIdle
    /\ FavIdle
    /\ listing \in ChannelLists
    /\ query \in Queries
    /\ listed = <<>>
    /\ groups = <<>>

NextQuery ==
    \/ SearchChannels
    \/ GetGroupsOfChannels
    \/ FilterChannels

SpecQuery == InitQuery /\ [][NextQuery]_vars

\* ------------------------------------------------------------------------
\* The cache store as time passes
\* ------------------------------------------------------------------------

\* Storage.cacheChannels(channels, expiryHours), called on its own
CacheChannels ==
    /\ \E chs \in {<<>>, CachedBefore} : \E h \in 1..MaxTtl : Store(chs, h)
    /\ last' = Did("cacheChannels", "")
    /\ UNCHANGED <<navState, parseVars, hashVars, favVars, queryVars, calls, now>>

\* The clock advances.
Tick ==
    /\ now < MaxClock
    /\ now' = now + 1
    /\ last' = Did("tick", "")
    /\ UNCHANGED <<navState, parseVars, hashVars, favVars, queryVars, cache, calls,
                   expiry, stored>>

InitCache ==
    /\ NavIdle
    /\ ParseIdle
    /\ LibIdle

\* Writes, the passing of time, and the two callers' calls up to their first
\* suspension
NextCache ==
    \/ CacheChannels
    \/ Tick
    \/ \E c \in Callers : \E url \in UrlsOf(c) : FetchPlaylist(c, url)

SpecCache == InitCache /\ [][NextCache]_vars

\* ------------------------------------------------------------------------
\* Favorites: Storage.addFavorite, Storage.removeFavorite, App.toggleFavorite
\* ------------------------------------------------------------------------

\* The channel objects whose favorite control can be clicked. A value carries
\* its JavaScript type, since === and !== compare the type first: a channel
\* is an object, its url a string.
FavChannels == {[type |-> "object", url |-> u] : u \in {"u1", "u2", "u3"}}

\* Storage.addFavorite(channel) on the stored list favs
\* (src/unnamed/part_000:132-146): the entry goes to the front unless an
\* entry of that url is there.
AddFavorite(favs, channel) ==
    IF \E i \in 1..Len(favs) : favs[i].url = channel.url
    THEN favs
    ELSE <<[url |-> channel.url]>> \o favs

\* Storage.removeFavorite(channelUrl) (src/unnamed/part_000:151-155): the
\* entries f with f.url !== channelUrl are kept; f.url is a string.
RemoveFavorite(favs, channelUrl) ==
    SelectSeq(favs, LAMBDA f : [type |-> "string", url |-> f.url] # channelUrl)

\* App.toggleFavorite(channel, btnElement), src/js/app.js:273-291. The
\* channel object itself is what line 278 hands to removeFavorite. In the
\* favorites section the cards are rendered anew (line 288), which ends
\* with Navigation.updateFocusableElements(). last.fav is isFavorite of
\* line 275.
AppToggleFavorite ==
    \E channel \in FavChannels, inFavorites \in BOOLEAN :
       LET isFavorite == \E i \in 1..Len(favorites) :
                            favorites[i].url = channel.url
       IN  /\ favorites' = IF isFavorite
                           THEN RemoveFavorite(favorites, channel)
                           ELSE AddFavorite(favorites, channel)
           /\ IF inFavorites
              THEN \E s1 \in ModeScenes :
                      /\ Becomes(Update([Here EXCEPT !.surface = s1],
                                        isPlayerActive))
                      /\ last' = [Did("App.toggleFavorite", channel.url)
                                    EXCEPT !.fav = isFavorite,
                                           !.rebuilt = s1.anchor]
              ELSE /\ last' = [Did("App.toggleFavorite", channel.url)
                                 EXCEPT !.fav = isFavorite]
                   /\ UNCHANGED <<surface, marks, grid, focusedElement>>
           /\ UNCHANGED <<focusHistory, currentRow, currentCol,
                          currentSection, isPlayerActive, timers, parseVars,
                          hashVars, fetchVars, queryVars>>

InitFav ==
    /\ NavIdle
    /\ ParseIdle
    /\ LibIdle

SpecFav == InitFav /\ [][AppToggleFavorite]_vars

\* ------------------------------------------------------------------------
\* Properties of navigate
\* ------------------------------------------------------------------------

\* The step is navigate(dir) on a non-empty grid that holds the focused
\* target (the grid of the step is the one navigate leaves: it assigns a
\* new one only when it found the old one empty).
NavigatedFrom(dir) ==
    /\ last'.op = "navigate"
    /\ last'.arg = dir
    /\ Len(grid') > 0
    /\ Locate(grid', focusedElement).found

\* After the step the focus is on row r, column c of the grid and so is the
\* cursor.
FocusAt(r, c) ==
    /\ focusedElement' = grid'[r + 1][c + 1]
    /\ currentRow' = r
    /\ currentCol' = c

\* C1: on every non-empty grid, navigate('right') with the focus on the last
\* column of a row that is not the final row moves the focus to column 0 of
\* the next row; on the last column of the final row it changes neither the
\* focused target nor the cursor (which is the focused target's place); from
\* any other column it moves the focus one column right in the same row.
C1_NavigateRight ==
    [][ NavigatedFrom("right") =>
          LET at == Locate(grid', focusedElement)
          IN /\ ~last'.raised
             /\ IF at.col < Len(grid'[at.row + 1]) - 1
                THEN FocusAt(at.row, at.col + 1)
                ELSE IF at.row < Len(grid') - 1
                THEN FocusAt(at.row + 1, 0)
                ELSE focusedElement' = focusedElement /\ FocusAt(at.row, at.col)
      ]_vars

\* navigate('right') has just wrapped from the end of a row of several
\* targets to the start of the next row.
C1_Witness ==
    /\ last.op = "navigate"
    /\ last.arg = "right"
    /\ Locate(grid, last.from).found
    /\ LET at == Locate(grid, last.from)
       IN /\ at.col > 0
          /\ at.col = Len(grid[at.row + 1]) - 1
          /\ at.row < Len(grid) - 1
          /\ focusedElement = grid[at.row + 2][1]
          /\ focusedElement # last.from

\* C2: on every non-empty grid, navigate('left') with the focus on column 0
\* of a row that is not the first row moves the focus to the last column of
\* the previous row; on column 0 of the first row it changes neither the
\* focused target nor the cursor; from any other column it moves the focus
\* one column left in the same row.
C2_NavigateLeft ==
    [][ NavigatedFrom("left") =>
          LET at == Locate(grid', focusedElement)
          IN /\ ~last'.raised
             /\ IF at.col > 0
                THEN FocusAt(at.row, at.col - 1)
                ELSE IF at.row > 0
                THEN FocusAt(at.row - 1, Len(grid'[at.row]) - 1)
                ELSE focusedElement' = focusedElement /\ FocusAt(at.row, at.col)
      ]_vars

\* navigate('left') has just wrapped from the start of a row to the end of
\* a previous row of several targets.
C2_Witness ==
    /\ last.op = "navigate"
    /\ last.arg = "left"
    /\ Locate(grid, last.from).found
    /\ LET at == Locate(grid, last.from)
       IN /\ at.col = 0
          /\ at.row > 0
          /\ Len(grid[at.row]) > 1
          /\ focusedElement = grid[at.row][Len(grid[at.row])]
          /\ focusedElement # last.from

\* C3: navigate('up') / navigate('down') with the focus at (r, c) moves the
\* focus to row r-1 / r+1 when that row exists, at column
\* min(c, length of the new row - 1); when there is no row in that direction
\* the focused target is unchanged.
C3_NavigateUpDown ==
    [][ /\ NavigatedFrom("up") =>
             LET at == Locate(grid', focusedElement)
             IN /\ ~last'.raised
                /\ IF at.row > 0
                   THEN FocusAt(at.row - 1,
                                Min(at.col, Len(grid'[at.row]) - 1))
                   ELSE focusedElement' = focusedElement
        /\ NavigatedFrom("down") =>
             LET at == Locate(grid', focusedElement)
             IN /\ ~last'.raised
                /\ IF at.row < Len(grid') - 1
                   THEN FocusAt(at.row + 1,
                                Min(at.col, Len(grid'[at.row + 2]) - 1))
                   ELSE focusedElement' = focusedElement
      ]_vars

\* navigate('up') has just moved the focus from a column the row above does
\* not have to that row's last column.
C3_Witness ==
    /\ last.op = "navigate"
    /\ last.arg = "up"
    /\ Locate(grid, last.from).found
    /\ LET at == Locate(grid, last.from)
       IN /\ at.row > 0
          /\ at.col > Len(grid[at.row]) - 1
          /\ focusedElement = grid[at.row][Len(grid[at.row])]
          /\ currentCol = Len(grid[at.row]) - 1

\* ------------------------------------------------------------------------
\* Properties of the focus history
\* ------------------------------------------------------------------------

\* C4: after any sequence of select() and back() calls the focus history
\* holds at most 20 entries; a select() made when it holds 20 removes the
\* oldest entry and keeps the other 19 in their order, the new entry on top.
C4_HistoryBounded ==
    [][ /\ Len(focusHistory') <= 20
        /\ (last'.op = "select" /\ focusedElement # Null
              /\ Len(focusHistory) = 20) =>
              /\ Len(focusHistory') = 20
              /\ \A i \in 1..19 : focusHistory'[i] = focusHistory[i + 1]
              /\ focusHistory'[20] =
                    [element |-> focusedElement, section |-> currentSection]
      ]_vars

\* select() has just been made on a full history whose oldest entry was not
\* the one that follows it.
C4_Witness ==
    /\ last.op = "select"
    /\ last.hlen = 20
    /\ Len(focusHistory) = 20
    /\ last.clicks = <<focusHistory[20].element>>
    /\ focusHistory[19] # focusHistory[20]
    /\ focusHistory[1] # focusHistory[2]

\* ------------------------------------------------------------------------
\* Properties of back and select
\* ------------------------------------------------------------------------

\* C5: back() called in player mode always exits playback (it invokes the
\* player's close operation) and returns without popping the focus history,
\* switching section or changing focus, whatever the history and the
\* current section are.
C5_BackInPlayerMode ==
    [][ (last'.op = "back" /\ isPlayerActive) =>
          /\ last'.closed
          /\ ~last'.raised
          /\ focusHistory' = focusHistory
          /\ currentSection' = currentSection
          /\ last'.shown = ""
          /\ focusedElement' = focusedElement
      ]_vars

\* C6: back() outside player mode: on a section other than 'home' it
\* switches to 'home' and leaves the history untouched; on 'home' with a
\* non-empty history it pops exactly the most recently pushed entry and
\* focuses that entry's target only if it is still attached, otherwise the
\* focus is unchanged; with an empty history it changes nothing.
C6_BackOutsidePlayerMode ==
    [][ (last'.op = "back" /\ ~isPlayerActive) =>
          /\ ~last'.raised
          /\ IF currentSection # "home"
             THEN /\ last'.shown = "home"
                  /\ focusHistory' = focusHistory
             ELSE IF Len(focusHistory) > 0
             THEN LET top == focusHistory[Len(focusHistory)]
                  IN /\ focusHistory' =
                           SubSeq(focusHistory, 1, Len(focusHistory) - 1)
                     /\ focusedElement' =
                           IF Attached(surface, top.element)
                           THEN top.element ELSE focusedElement
             ELSE UNCHANGED <<surface, marks, grid, focusedElement,
                              focusHistory, currentRow, currentCol,
                              currentSection, isPlayerActive, timers>>
      ]_vars

\* C7: select() with a focused target T on section S dispatches exactly one
\* click, on T, and pushes the pair (T, S) on the focus history, T and S
\* being the focused target and the section when select() was called,
\* whatever the click's listeners do; without a focused target it
\* dispatches nothing and pushes nothing.
C7_SelectPushesInvoked ==
    [][ last'.op = "select" =>
          IF focusedElement = Null
          THEN last'.clicks = <<>> /\ focusHistory' = focusHistory
          ELSE /\ last'.clicks = <<focusedElement>>
               /\ Len(focusHistory) < 20 =>
                     focusHistory' =
                        Append(focusHistory,
                               [element |-> focusedElement,
                                section |-> currentSection])
      ]_vars

\* select() has just clicked a target whose listener switched the section,
\* which rebuilt the grid and focused its first target, another one; the
\* entry pushed holds the clicked target, on a section other than 'home'.
C7_Witness ==
    /\ last.op = "select"
    /\ last.rebuilt
    /\ Len(grid) > 0
    /\ Len(last.clicks) = 1
    /\ grid[1][1] # last.clicks[1]
    /\ Len(focusHistory) = last.hlen + 1
    /\ focusHistory[Len(focusHistory)] =
          [element |-> last.clicks[1], section |-> "favorites"]

\* ------------------------------------------------------------------------
\* Properties of the grid
\* ------------------------------------------------------------------------

\* C8: after every grid build every row of the grid is non-empty, all
\* targets of a row have the same band index floor(top / 80), rows are in
\* strictly increasing band index, and the targets of a row are in
\* non-decreasing order of left coordinate.
C8_GridShape ==
    last.rebuilt =>
       LET band(t) == surface.place[t].top \div 80
           left(t) == surface.place[t].left
       IN /\ \A i \in 1..Len(grid) : Len(grid[i]) > 0
          /\ \A i \in 1..Len(grid) : \A j, k \in 1..Len(grid[i]) :
                band(grid[i][j]) = band(grid[i][k])
          /\ \A i, j \in 1..Len(grid) :
                i < j => band(grid[i][1]) < band(grid[j][1])
          /\ \A i \in 1..Len(grid) : \A j, k \in 1..Len(grid[i]) :
                j < k => left(grid[i][j]) <= left(grid[i][k])

\* A build has just made a grid of several rows, one of which holds two
\* targets of different tops against their document order.
C8_Witness ==
    /\ last.op = "updateFocusableElements"
    /\ last.rebuilt
    /\ Len(grid) > 1
    /\ \E i \in 1..Len(grid) :
          /\ Len(grid[i]) > 1
          /\ grid[i][1] > grid[i][2]
          /\ surface.place[grid[i][1]].top # surface.place[grid[i][2]].top

\* ------------------------------------------------------------------------
\* Properties of the engine without targets
\* ------------------------------------------------------------------------

\* The grid is empty and stays empty when rebuilt, nothing is focused and
\* the history is empty.
NoTarget ==
    /\ grid = <<>>
    /\ UpdatedGrid(surface, isPlayerActive, grid) = <<>>
    /\ focusedElement = Null
    /\ focusHistory = <<>>

\* C9: when the surface exposes no focusable target at all (the grid is
\* empty and still empty after a rebuild, nothing is focused, the history is
\* empty), navigate in any direction, select(), back() on the home section
\* outside player mode, and toggleFavorite() complete without raising and
\* leave focus, cursor, grid and history unchanged.
C9_NoTargetNoOp ==
    [][ ( /\ NoTarget
          /\ \/ last'.op \in {"navigate", "select", "toggleFavorite"}
             \/ /\ last'.op = "back"
                /\ currentSection = "home"
                /\ ~isPlayerActive ) =>
          /\ ~last'.raised
          /\ UNCHANGED <<focusedElement, currentRow, currentCol, grid,
                         focusHistory>>
      ]_vars

\* navigate('right') has just returned on a page without any target, in
\* player mode.
C9_Witness ==
    /\ last.op = "navigate"
    /\ last.arg = "right"
    /\ ~last.raised
    /\ NoTarget
    /\ isPlayerActive
    /\ \A t \in Targets : ~Attached(surface, t)

\* ------------------------------------------------------------------------
\* Properties of the parser
\* ------------------------------------------------------------------------

\* What a line of a playlist text is: a metadata line, a URL line, or a
\* line that is neither (blank lines and the others, which are ignored).
LineKind(raw) ==
    IF StartsWith(Trim(raw), ExtInfPrefix) THEN "meta"
    ELSE IF StartsWith(Trim(raw), HttpPrefix) THEN "url"
    ELSE "other"

\* The metadata and URL lines of a text, in order
PairLines(text) ==
    SelectSeq(Split(text), LAMBDA raw : LineKind(raw) # "other")

\* The text is made of pairs: its metadata and URL lines alternate, a
\* metadata line first and a URL line last.
MadeOfPairs(text) ==
    LET ls == PairLines(text)
    IN /\ Len(ls) % 2 = 0
       /\ \A i \in 1..Len(ls) :
             LineKind(ls[i]) = IF i % 2 = 1 THEN "meta" ELSE "url"

\* The channel of a pair: the metadata of its first line, the URL of its
\* second and the id of the two.
PairChannel(meta, url) ==
    LET c == [ParseExtInf(Trim(meta)) EXCEPT !.url = Trim(url)]
    IN [c EXCEPT !.id = GenerateId(c)]

\* C10: for a playlist text made of N pairs, each a line beginning
\* '#EXTINF:' followed by a line beginning 'http' (blank and other ignored
\* lines allowed in between), parse returns exactly N channels and the k-th
\* channel carries the k-th pair's metadata and URL.
C10_ParsePairs ==
    (last.op = "parse" /\ MadeOfPairs(content)) =>
       LET ls == PairLines(content)
       IN /\ Len(channels) * 2 = Len(ls)
          /\ \A k \in 1..Len(channels) :
                channels[k] = PairChannel(ls[2 * k - 1], ls[2 * k])

\* parse has just returned two different channels for a text of two pairs.
C10_Witness ==
    /\ last.op = "parse"
    /\ MadeOfPairs(content)
    /\ Len(PairLines(content)) = 4
    /\ Len(channels) = 2
    /\ channels[1].name # channels[2].name
    /\ channels[1].url # channels[2].url
    /\ channels[1].id # channels[2].id

\* The positions of the metadata lines whose next metadata or URL line is a
\* URL line.
Producers(lines) ==
    {i \in 1..Len(lines) :
        /\ LineKind(lines[i]) = "meta"
        /\ \E j \in (i + 1)..Len(lines) :
              /\ LineKind(lines[j]) = "url"
              /\ \A k \in (i + 1)..(j - 1) : LineKind(lines[k]) = "other"}

\* The position of the URL line that follows the metadata line at i
UrlAfter(lines, i) ==
    Least({j \in (i + 1)..Len(lines) : LineKind(lines[j]) = "url"})

\* The k-th least member of a set of positions
Nth(P, k) == CHOOSE i \in P : Cardinality({j \in P : j < i}) = k - 1

\* C11: for any sequence of lines, parse returns exactly one channel for
\* each '#EXTINF:' line whose next following line beginning '#EXTINF:' or
\* 'http' is an 'http' line, and none for any other line: a metadata line
\* overwritten by a later one before a URL line gives no channel, and a URL
\* line without pending metadata (a second URL line after the same metadata
\* line included) gives none.
C11_OneChannelPerTerminatedMeta ==
    last.op = "parse" =>
       LET lines == Split(content)
           from  == Producers(lines)
       IN /\ Len(channels) = Cardinality(from)
          /\ \A k \in 1..Len(channels) :
                channels[k] =
                   PairChannel(lines[Nth(from, k)],
                               lines[UrlAfter(lines, Nth(from, k))])

\* parse has just returned one channel for a text of two metadata lines and
\* two URL lines: the first metadata line was overwritten and the second
\* URL line had no pending metadata.
C11_Witness ==
    /\ last.op = "parse"
    /\ Len(channels) = 1
    /\ LET lines == Split(content)
       IN /\ Len(lines) = 4
          /\ LineKind(lines[1]) = "meta"
          /\ LineKind(lines[2]) = "meta"
          /\ LineKind(lines[3]) = "url"
          /\ LineKind(lines[4]) = "url"
          /\ lines[1] # lines[2]
          /\ lines[3] # lines[4]
          /\ channels[1] = PairChannel(lines[2], lines[3])

\* ------------------------------------------------------------------------
\* Properties of generateId
\* ------------------------------------------------------------------------

\* (31 * h + c) modulo 2^32, on the halves
Times31Plus(h, c) ==
    LET low  == 31 * h.lo + c
        high == 31 * h.hi + low \div 65536
    IN [hi |-> high % 65536, lo |-> low % 65536]

\* h is a 32-bit value.
Is32Bit(h) == h.hi \in 0..65535 /\ h.lo \in 0..65535

\* a is the absolute value of the signed 32-bit integer h: h itself when its
\* sign bit is clear, and otherwise the a with a + h = 2^32.
IsAbsOf(a, h) ==
    IF h.hi < 32768 THEN a = h
    ELSE /\ Is32Bit(a)
         /\ (a.lo + h.lo) % 65536 = 0
         /\ a.hi + h.hi + (a.lo + h.lo) \div 65536 = 65536

\* The number the base-36 digits ds write, high part not reduced
ValueOf36(ds) ==
    LET RECURSIVE V(_)
        V(i) == IF i = 0 THEN [hi |-> 0, lo |-> 0]
                ELSE LET d   == CHOOSE k \in 0..35 : Digits36[k + 1] = ds[i]
                         low == V(i - 1).lo * 36 + d
                     IN [hi |-> V(i - 1).hi * 36 + low \div 65536,
                         lo |-> low % 65536]
    IN V(Len(ds))

\* ds is a base-36 numeral: digits only (no sign), no leading zero.
IsNumeral36(ds) ==
    /\ Len(ds) >= 1
    /\ \A i \in 1..Len(ds) : \E k \in 1..36 : Digits36[k] = ds[i]
    /\ Len(ds) > 1 => ds[1] # "0"

\* C12: generateId's accumulator is a signed 32-bit integer which each loop
\* iteration takes to (31 * previous + character code) wrapped modulo 2^32;
\* the returned id is 'ch_' followed by the base-36 digits of the
\* accumulator's absolute value, without sign, and is the id of every
\* channel whose name + url is the same string.
C12_GenerateId ==
    [][/\ hashPos' = hashPos + 1 =>
             /\ Is32Bit(hash')
             /\ hash' = Times31Plus(hash, CharCode(hashStr[hashPos']))
       /\ (hashId = <<>> /\ hashId' # <<>>) =>
             LET ds == SubSeq(hashId', 4, Len(hashId'))
             IN /\ SubSeq(hashId', 1, 3) = <<"c", "h", "_">>
                /\ IsNumeral36(ds)
                /\ IsAbsOf(ValueOf36(ds), hash)
                /\ hashId' = GenerateId(hashChannel)
                /\ hashId' = GenerateId([name |-> <<>>, url |-> hashStr])
      ]_vars

\* generateId has returned for a name of seven characters whose accumulator
\* wrapped to the least 32-bit integer: the id is 'ch_zik0zk', the digits of
\* 2^31.
C12_Witness ==
    /\ last.op = "generateId"
    /\ hashPos = 7
    /\ hash = [hi |-> 32768, lo |-> 0]
    /\ hashId = <<"c", "h", "_", "z", "i", "k", "0", "z", "k">>

\* ------------------------------------------------------------------------
\* Properties of parseExtInf
\* ------------------------------------------------------------------------

\* The name the resolution order gives a line: the title when present and
\* non-empty, otherwise the tvg-name when present and non-empty, otherwise
\* 'Unknown Channel'
ResolvedName(tvg, title) ==
    IF title.present /\ title.value # <<>> THEN title.value
    ELSE IF tvg.present /\ tvg.value # <<>> THEN tvg.value
    ELSE UnknownChannel

\* C13: for every metadata line, over every combination of title text and
\* tvg-name attribute, the channel's name is the explicit title text when it
\* is present and non-empty, otherwise the tvg-name attribute when it is
\* present and non-empty, otherwise the literal 'Unknown Channel'.
C13_NameResolution ==
    last.op = "parse" =>
       \A dur \in DurationForms, grp \in GroupForms,
          tvg \in TvgNameForms, title \in TitleForms :
          content = ExtInfText(dur, grp, tvg, title) =>
             /\ Len(channels) = 1
             /\ channels[1].name = ResolvedName(tvg, title)

\* ------------------------------------------------------------------------
\* Properties of fetchPlaylist
\* ------------------------------------------------------------------------

\* The step is the call of fetchPlaylist by c.
CalledBy(c) == calls[c].pc = "idle" /\ calls'[c].pc # "idle"

\* C14: when the cache holds a non-empty channel sequence, fetchPlaylist
\* returns exactly that sequence, issues no network request and does not
\* write the cache (and, having returned, does nothing more); when the cache
\* is absent or holds an empty sequence, it goes on to its first transport
\* strategy.
C14_CacheShortCircuit ==
    [][\A c \in Callers :
          /\ CalledBy(c) =>
                IF cache.present /\ cache.channels # <<>>
                THEN /\ calls'[c].pc = "returned"
                     /\ calls'[c].result = cache.channels
                     /\ calls'[c].tried = <<>>
                     /\ calls'[c].wrote = 0
                     /\ cache' = cache
                ELSE /\ calls'[c].pc = "fetch"
                     /\ Len(calls'[c].tried) = 1
          /\ calls[c].pc = "returned" => calls'[c] = calls[c]
      ]_vars

\* handlePlaylistUrlInput's call has returned the cached sequence that
\* loadChannels' call wrote, without a request of its own.
C14_Witness ==
    /\ calls["loadChannels"].pc = "returned"
    /\ calls["loadChannels"].wrote = 1
    /\ calls["handlePlaylistUrlInput"].pc = "returned"
    /\ calls["handlePlaylistUrlInput"].hit
    /\ calls["handlePlaylistUrlInput"].tried = <<>>
    /\ calls["handlePlaylistUrlInput"].result = calls["loadChannels"].result
    /\ calls["handlePlaylistUrlInput"].result # <<>>

\* s is an initial part of t.
IsPrefix(s, t) == Len(s) <= Len(t) /\ s = SubSeq(t, 1, Len(s))

\* The prefixes the call sent its requests through, in order
SentThrough(call) == [i \in 1..Len(call.tried) |-> call.tried[i].to]

\* Every attempt of the call but the last failed or gave zero channels.
EarlierGaveNothing(call) ==
    \A i \in 1..(Len(call.tried) - 1) :
       call.tried[i].outcome \in {"reject", "status", "empty"}

\* The relay prefixes of the configured list, in list order
RelayPrefixes ==
    LET IsRelay(p) == p # ""
    IN SelectSeq(CORS_PROXIES, IsRelay)

\* C15 as stated: the strategies are attempted in the order direct request,
\* each configured relay prefix in list order, same-origin relay; each only
\* after every strategy before it failed or yielded zero channels.
C15_DirectFirst ==
    \A c \in Callers :
       /\ IsPrefix(SentThrough(calls[c]),
                   <<"">> \o RelayPrefixes \o <<PhpProxy>>)
       /\ EarlierGaveNothing(calls[c])

\* C15 amended: the strategies are attempted in the order corsproxy.io
\* relay, allorigins relay, direct request, same-origin relay; each only
\* after every strategy before it failed or yielded zero channels.
C15_DirectAfterRelays ==
    \A c \in Callers :
       /\ IsPrefix(SentThrough(calls[c]),
                   <<"https://corsproxy.io/?",
                     "https://api.allorigins.win/raw?url=",
                     "", "php/proxy.php?url=">>)
       /\ EarlierGaveNothing(calls[c])

\* A call has gone through the four strategies and raised: the third
\* request was the direct one and the fourth the same-origin relay's.
C15_Witness ==
    \E c \in Callers :
       /\ calls[c].pc = "raised"
       /\ Len(calls[c].tried) = 4
       /\ calls[c].tried[3].to = ""
       /\ calls[c].tried[4].to = PhpProxy

ErrorsOf(call) ==
    {i \in 1..Len(call.tried) :
        \/ call.tried[i].outcome = "reject"
        \/ call.tried[i].outcome = "status" /\ i <= Len(CORS_PROXIES)}

\* C17: when the cache is absent and no strategy yields a channel,
\* fetchPlaylist raises instead of returning; the error raised is the error
\* of the last strategy that failed, and the generic 'Failed to fetch
\* playlist' only when no strategy produced an error.
C17_RaisesLastError ==
    \A c \in Callers :
       LET call == calls[c]
           errs == ErrorsOf(call)
       IN /\ (Len(call.tried) = 4
              /\ \A i \in 1..4 : call.tried[i].outcome
                                    \in {"reject", "status", "empty"})
                => call.pc = "raised"
          /\ call.pc = "raised" =>
                IF errs = {} THEN call.error = FailedToFetch
                ELSE LET k == CHOOSE i \in errs : \A j \in errs : j <= i
                     IN call.error = [at |-> k, what |-> call.tried[k].outcome]

\* C18: at every moment at most one network request issued by the fetch
\* pipeline is outstanding, whatever the interleaving of loadChannels and
\* handlePlaylistUrlInput.
C18_OneRequestOutstanding ==
    Cardinality({c \in Callers : calls[c].pc = "fetch"}) <= 1

\* ------------------------------------------------------------------------
\* Properties of search and getGroups
\* ------------------------------------------------------------------------

\* q is empty or white space only.
Blank(q) == \A i \in 1..Len(q) : q[i] \in WhiteSpace

\* sub is a substring of s.
IsSubstring(sub, s) ==
    \E a \in 0..Len(s) : \E b \in a..Len(s) : SubSeq(s, a + 1, b) = sub

\* The lower-cased trimmed q is a substring of the lower-cased name, group,
\* country or language of the channel.
MatchesQuery(channel, q) ==
    \E field \in {channel.name, channel.group, channel.country,
                  channel.language} :
       IsSubstring(ToLowerCase(Trim(q)), ToLowerCase(field))

\* C19: search(channels, q) returns the empty sequence when q is empty or
\* only white space; otherwise it returns exactly the channels, in their
\* original order, for which the lower-cased trimmed q is a substring of the
\* lower-cased name, group, country or language.
C19_Search ==
    last.op = "search" =>
       IF Blank(query) THEN listed = <<>>
       ELSE LET hits == {i \in 1..Len(listing) :
                           MatchesQuery(listing[i], query)}
            IN /\ Len(listed) = Cardinality(hits)
               /\ \A k \in 1..Len(listed) : listed[k] = listing[Nth(hits, k)]

\* search has returned the first and the third of three channels for the
\* padded upper-case query ' AB ': the first has 'Ab' as its name, the
\* third 'ab' as its language, the second matches nowhere.
C19_Witness ==
    /\ last.op = "search"
    /\ query = <<" ", "A", "B", " ">>
    /\ Len(listing) = 3
    /\ listing[1].name = <<"A", "b">>
    /\ ~MatchesQuery(listing[2], query)
    /\ listing[3].language = <<"a", "b">>
    /\ listed = <<listing[1], listing[3]>>

\* The sum of the counts of the entries
SumOfCounts(entries) ==
    LET RECURSIVE Sum(_)
        Sum(i) == IF i = 0 THEN 0 ELSE Sum(i - 1) + entries[i].count
    IN Sum(Len(entries))

\* The position at which the list first has a channel of the group
FirstOf(chs, g) == Least({i \in 1..Len(chs) : chs[i].group = g})

\* C20: getGroups(channels) returns one entry per distinct group name, each
\* count the number of channels of that group, the counts summing to the
\* length of channels; the entries are in non-increasing order of count, and
\* entries of equal count are in the order in which their groups were first
\* encountered.
C20_GetGroups ==
    last.op = "getGroups" =>
       LET names == {listing[i].group : i \in 1..Len(listing)}
           n     == Len(groups)
       IN /\ n = Cardinality(names)
          /\ {groups[k].name : k \in 1..n} = names
          /\ \A k \in 1..n :
                groups[k].count =
                   Cardinality({i \in 1..Len(listing) :
                                   listing[i].group = groups[k].name})
          /\ SumOfCounts(groups) = Len(listing)
          /\ \A k \in 1..(n - 1) : groups[k].count >= groups[k + 1].count
          /\ \A k \in 1..n : \A l \in (k + 1)..n :
                groups[k].count = groups[l].count =>
                   FirstOf(listing, groups[k].name)
                      < FirstOf(listing, groups[l].name)

\* getGroups has returned the entries of three channels whose first is alone
\* in its group: the group of the other two comes first, with count 2.
C20_Witness ==
    /\ last.op = "getGroups"
    /\ Len(listing) = 3
    /\ listing[1].group # listing[2].group
    /\ listing[2].group = listing[3].group
    /\ groups = <<[name |-> listing[2].group, count |-> 2],
                  [name |-> listing[1].group, count |-> 1]>>

\* C21: filterByGroup(channels, g) returns channels unchanged (same elements,
\* same order) when g is 'all' or empty, and otherwise exactly the channels
\* whose group equals g, in their original order.
C21_FilterByGroup ==
    last.op = "filterByGroup" =>
       IF query = <<>> \/ query = <<"a", "l", "l">> THEN listed = listing
       ELSE LET hits == {i \in 1..Len(listing) : listing[i].group = query}
            IN /\ Len(listed) = Cardinality(hits)
               /\ \A k \in 1..Len(listed) : listed[k] = listing[Nth(hits, k)]

\* filterByGroup has returned the first and third of three channels for the
\* group 'x'.
C21_Witness ==
    /\ last.op = "filterByGroup"
    /\ Len(listing) = 3
    /\ query = <<"x">>
    /\ listing[2].group # <<"x">>
    /\ listed = <<listing[1], listing[3]>>
    /\ listing[1] # listing[3]

\* ------------------------------------------------------------------------
\* Properties of toggleFavorite
\* ------------------------------------------------------------------------

\* C22: toggleFavorite() with the focus on a channel card rendered by
\* App.renderChannels forwards one activation to the card's favorite
\* control; with the focus outside every card, or without focus, it does
\* nothing.
C22_ToggleFavoriteForwards ==
    last.op = "toggleFavorite" =>
       last.fav = (focusedElement # Null /\ IsChannelCard(focusedElement))

\* ------------------------------------------------------------------------
\* Properties of the cache store
\* ------------------------------------------------------------------------

C24_NavigateNeverRaises ==
    (last.op = "navigate" /\ Len(grid) > 0) =>
       /\ ~last.raised
       /\ \/ focusedElement = last.from
          \/ Locate(grid, focusedElement).found

\* ------------------------------------------------------------------------
\* Properties of the rebuild
\* ------------------------------------------------------------------------

\* The number of places of the grid that hold target t
TimesInGrid(t) ==
    Cardinality({ij \in (1..Len(grid)) \X (1..NumTargets) :
                    ij[2] <= Len(grid[ij[1]]) /\ grid[ij[1]][ij[2]] = t})

\* The targets the surface enumerates for the current mode: the overlay's in
\* player mode, else the header's and those of the active section (none
\* when no section is active).
Enumerated ==
    {t \in Targets :
        IF isPlayerActive THEN surface.place[t].scope = "player"
        ELSE \/ surface.place[t].scope = "nav"
             \/ surface.place[t].scope = "section" /\ surface.anchor}

\* C25: after updateFocusableElements has built the grid, every target the
\* surface enumerates in the scope of the current mode is in the grid
\* exactly once, whatever its top coordinate is, tops above the viewport
\* origin (negative) included.
C25_EveryTargetOnce ==
    (last.op = "updateFocusableElements" /\ last.rebuilt) =>
       \A t \in Enumerated : TimesInGrid(t) = 1

\* The targets held by the grid
InGrid == {t \in Targets : TimesInGrid(t) > 0}

\* The steps that are, or end with, a call of updateFocusableElements
RebuildCalls ==
    {"updateFocusableElements", "renderChannels", "switchSection", "timer"}

\* C26: immediately after a call of updateFocusableElements the grid holds
\* only targets the surface enumerates at that moment for the current mode;
\* no target of an earlier snapshot that is no longer enumerated remains,
\* also when no section is active and no player overlay is visible.
C26_RebuildReplaces ==
    last.op \in RebuildCalls => InGrid \subseteq Enumerated

\* A settle timer whose callback is `task` has just fired and the next
\* pending timer has the same callback.
SameTimerAgain(task) ==
    /\ last.op = "timer"
    /\ last.arg = task
    /\ Len(timers) > 0
    /\ Head(timers) = task

\* The step is the firing of the oldest pending timer.
TimerFires ==
    /\ last'.op = "timer"
    /\ Len(timers) > 0
    /\ timers' = Tail(timers)

\* C27: rebuilding is idempotent.  A second updateFocusableElements() on the
\* surface and mode the first one saw (two exitPlayerMode timers in a row,
\* whose callback is that call alone) leaves the grid as the first made it,
\* and the second of two setSection settle timers leaves the grid, the
\* focused target, its mark and the history as the first left them.
C27_RebuildIdempotent ==
    [][/\ (SameTimerAgain("exitPlayerMode") /\ TimerFires) => grid' = grid
       /\ (SameTimerAgain("setSection") /\ TimerFires) =>
             /\ grid' = grid
             /\ focusedElement' = focusedElement
             /\ marks' = marks
             /\ focusHistory' = focusHistory]_vars

\* The first of two setSection timers has built a grid of several rows and
\* focused its first target, the second is pending, and the history holds
\* an entry.
C27_Witness ==
    /\ SameTimerAgain("setSection")
    /\ Len(grid) > 1
    /\ focusedElement = grid[1][1]
    /\ Len(focusHistory) > 0

\* ------------------------------------------------------------------------
\* Properties of the mode switches and their settle timers
\* ------------------------------------------------------------------------

SettleTasks == {"setSection", "enterPlayerMode", "exitPlayerMode"}

\* The step is a call of setSection, enterPlayerMode or exitPlayerMode.
SwitchCalled(task) ==
    /\ last'.op = task
    /\ timers' # timers

\* The grid built from what the surface enumerates for the mode
GridOfSurface ==
    BuildGrid(surface, SelectSeq([t \in 1..NumTargets |-> t],
                                 LAMBDA t : t \in Enumerated))

\* C28: setSection(s), enterPlayerMode() and exitPlayerMode() set
\* currentSection / isPlayerActive within the call, leave the grid and the
\* focus as they are and schedule exactly one task; the task runs in a later
\* step, every scheduled task does run, and when it has run the grid is the
\* one built from the surface (after setSection's task the first target of a
\* non-empty grid is focused).
C28_DeferredRebuild ==
    /\ [][/\ \A task \in SettleTasks : SwitchCalled(task) =>
                /\ timers' = Append(timers, task)
                /\ grid' = grid
                /\ focusedElement' = focusedElement
                /\ task = "setSection" => currentSection' = last'.arg
                /\ task = "enterPlayerMode" => isPlayerActive'
                /\ task = "exitPlayerMode" => ~isPlayerActive'
          /\ TimerFires =>
                /\ grid' = GridOfSurface'
                /\ (Head(timers) = "setSection" /\ Len(grid') > 0) =>
                      focusedElement' = grid'[1][1]]_vars
    /\ \A task \in SettleTasks :
          (last.op = task) ~> (last.op = "timer" /\ last.arg = task)

\* The settle timer of enterPlayerMode has just fired while that of a later
\* exitPlayerMode was already pending, and nothing else is pending: the
\* player mode was left before its timer fired.
EnterSuperseded ==
    /\ last.op = "timer"
    /\ last.arg = "enterPlayerMode"
    /\ timers = <<"exitPlayerMode">>
    /\ ~isPlayerActive

\* C29: when enterPlayerMode() is followed by exitPlayerMode() before the
\* first settle timer fires, then once both timers have fired the engine is
\* in browsing mode, the grid holds no target of the player overlay, and the
\* focused target is not the player's default control.
C29_SupersededSwitch ==
    [][(EnterSuperseded /\ TimerFires) =>
          /\ ~isPlayerActive'
          /\ \A t \in InGrid' : surface'.place[t].scope # "player"
          /\ focusedElement' # PlayPause]_vars

\* ------------------------------------------------------------------------
\* Properties of a navigate that moves nothing
\* ------------------------------------------------------------------------

\* The step is a navigate() on a non-empty grid (an empty one is rebuilt
\* first) that returned without focusing another target.
NavigateFoundNothing ==
    /\ Len(grid) > 0
    /\ last'.op = "navigate"
    /\ ~last'.raised
    /\ focusedElement' = focusedElement

\* The position a navigate() starts from: that of the focused target in the
\* grid, or the persisted currentRow / currentCol when the grid does not
\* hold it.
StartPosition ==
    LET at == Locate(grid, focusedElement)
    IN IF at.found THEN <<at.row, at.col>> ELSE <<currentRow, currentCol>>

\* C30: a navigate() on a non-empty grid that finds no distinct next target
\* is a no-op: the focused target, the grid and the history are as before
\* and currentRow / currentCol are the position the step started from.
C30_NavigateNoOp ==
    [][NavigateFoundNothing =>
          /\ grid' = grid
          /\ focusHistory' = focusHistory
          /\ <<currentRow', currentCol'>> = StartPosition]_vars

\* ------------------------------------------------------------------------
\* Properties of the cursor
\* ------------------------------------------------------------------------

\* C31: after every navigate() that has returned, when the grid holds the
\* focused target, currentRow and currentCol are indices of the grid and the
\* target at that place is the focused one.
C31_CursorFollowsFocus ==
    (last.op = "navigate" /\ ~last.raised /\ focusedElement \in InGrid) =>
       /\ RowDefined(grid, currentRow)
       /\ currentCol >= 0
       /\ currentCol < Len(grid[currentRow + 1])
       /\ grid[currentRow + 1][currentCol + 1] = focusedElement

\* A navigate() has returned without moving the focus, which is marked and
\* in a row below the first of a grid of three rows or more.
C31_Witness ==
    /\ last.op = "navigate"
    /\ ~last.raised
    /\ last.from = focusedElement
    /\ focusedElement \in InGrid
    /\ currentRow > 0
    /\ marks = {focusedElement}
    /\ Len(grid) > 2

\* ------------------------------------------------------------------------
\* Properties of the title
\* ------------------------------------------------------------------------

\* The commas of a line that are outside every quoted attribute value: an
\* even number of double quotes precedes them.
TopLevelCommas(line) ==
    {p \in 1..Len(line) :
        /\ line[p] = ","
        /\ Cardinality({q \in 1..(p - 1) : line[q] = DQ}) % 2 = 0}

\* The text after the last top-level comma, without the white space around
\* it (the line has such a comma)
TitleOf(line) ==
    LET cs   == TopLevelCommas(line)
        cut  == CHOOSE p \in cs : \A q \in cs : q <= p
    IN Trim(SubSeq(line, cut + 1, Len(line)))

\* C32: for every metadata line that has a title, the name parseExtInf gives
\* the channel is the text after the last top-level comma of the line, also
\* when the line has more than one comma or a comma inside a quoted
\* attribute value.
C32_TitleAfterLastComma ==
    last.op = "parse" =>
       \A line \in CommaLines :
          (/\ content = CommaText(line)
           /\ TopLevelCommas(line) # {}
           /\ TitleOf(line) # <<>>) =>
             /\ Len(channels) = 1
             /\ channels[1].name = TitleOf(line)

\* ------------------------------------------------------------------------
\* Properties of navigate('right') and navigate('left') taken together
\* ------------------------------------------------------------------------

\* navigate(dir) has just moved the focus from a target to another one, and
\* the step is navigate(back).
MovedThenBack(dir, back) ==
    /\ last.op = "navigate"
    /\ last.arg = dir
    /\ last.from # Null
    /\ focusedElement # last.from
    /\ last'.op = "navigate"
    /\ last'.arg = back

\* C33 (as stated): whenever navigate('right') moves the focus from a target
\* A to a target B, an immediately following navigate('left') moves it back
\* to A, and the same with 'left' and 'right' exchanged.
C33_RightLeftInverse ==
    [][/\ MovedThenBack("right", "left") => focusedElement' = last.from
       /\ MovedThenBack("left", "right") => focusedElement' = last.from]_vars

\* C33 (amended): whenever navigate('right') moves the focus from a target A
\* that the grid holds to a target B, an immediately following
\* navigate('left') moves it back to A, and the same with 'left' and 'right'
\* exchanged.
C33_RightLeftInverseInGrid ==
    [][last.from \in InGrid =>
          /\ MovedThenBack("right", "left") => focusedElement' = last.from
          /\ MovedThenBack("left", "right") => focusedElement' = last.from]_vars

\* navigate('right') has just wrapped from the end of a row of two targets
\* to the start of the next row.
C33_Witness ==
    /\ last.op = "navigate"
    /\ last.arg = "right"
    /\ ~last.raised
    /\ last.from \in InGrid
    /\ focusedElement # last.from
    /\ currentRow > 0
    /\ currentCol = 0
    /\ Len(grid[currentRow]) = 2
    /\ grid[currentRow][2] = last.from

\* ------------------------------------------------------------------------
\* Properties of a run of navigate('right')
\* ------------------------------------------------------------------------

\* The targets of a grid row after row
RowMajor(g) ==
    LET RECURSIVE Flat(_)
        Flat(i) == IF i = 0 THEN <<>> ELSE Flat(i - 1) \o g[i]
    IN Flat(Len(g))

\* The place of target t in the row-major order of the grid, 0 when the
\* grid does not hold it
PlaceOf(g, t) ==
    LET ps == {k \in 1..Len(RowMajor(g)) : RowMajor(g)[k] = t}
    IN IF ps = {} THEN 0 ELSE CHOOSE k \in ps : \A j \in ps : k <= j

\* C34: on an unchanged grid, focusFirst() puts the focus on the first
\* target of the row-major order; every navigate('right') from the k-th
\* target of that order focuses the (k+1)-th, so that the targets are
\* focused one after the other, each once, and the last one is reached after
\* (number of targets - 1) steps; from the last target navigate('right')
\* changes neither the focus nor the cursor and never goes back to the first.
C34_RightSweep ==
    [][/\ (last'.op = "focusFirst" /\ Len(grid') > 0) =>
             PlaceOf(grid', focusedElement') = 1
       /\ (last'.op = "navigate" /\ PlaceOf(grid, focusedElement) > 0) =>
             LET k == PlaceOf(grid, focusedElement)
                 n == Len(RowMajor(grid))
             IN /\ grid' = grid
                /\ ~last'.raised
                /\ k < n => PlaceOf(grid, focusedElement') = k + 1
                /\ k = n => /\ focusedElement' = focusedElement
                            /\ grid[currentRow' + 1][currentCol' + 1] = focusedElement]_vars

\* navigate('right') has just reached the last of the four targets of a
\* grid of two rows of two.
C34_Witness ==
    /\ last.op = "navigate"
    /\ last.from # focusedElement
    /\ Len(grid) = 2
    /\ Len(grid[1]) = 2
    /\ Len(RowMajor(grid)) = 4
    /\ PlaceOf(grid, focusedElement) = 4
    /\ currentRow = 1
    /\ currentCol = 1

\* ------------------------------------------------------------------------
\* Properties of the focus mark
\* ------------------------------------------------------------------------

\* C35: in every reachable state at most one target carries the focus mark;
\* when focusedElement is non-null the marked target is the focused one, and
\* while nothing has been focused no target is marked (setFocus takes the
\* mark from the previous target and gives it to the new one, and does
\* nothing for an absent target).
C35_OneFocusMark ==
    /\ Cardinality(marks) <= 1
    /\ focusedElement # Null => marks = {focusedElement}
    /\ focusedElement = Null => marks = {}

\* navigate() has just moved the focus from a marked target to another one.
C35_Witness ==
    /\ last.op = "navigate"
    /\ last.from # Null
    /\ last.from # focusedElement
    /\ focusedElement \in marks
    /\ last.from \notin marks

\* ------------------------------------------------------------------------
\* Properties of fetchPlaylist and the cache taken together
\* ------------------------------------------------------------------------

\* C36: fetchPlaylist(url) returns only channels obtained from a response
\* for the url it was called with: when a call has returned the channels of
\* a response and stored them, a call for a different url that returns
\* while the entry is fresh has its channels from a response of its own, not
\* from the entry of the first.
C36_ResultOfOwnUrl ==
    \A c1, c2 \in Callers :
       (/\ calls[c1].pc = "returned"
        /\ ~calls[c1].hit
        /\ calls[c1].wrote = 1
        /\ calls[c2].pc = "returned"
        /\ calls[c2].url # calls[c1].url) => ~calls[c2].hit
\* C37: toggling is an involution on the stored favorites. A toggle of a
\* channel that was not a favorite leaves its url in the list; a toggle of a
\* channel that was a favorite leaves its url out of the list, so that two
\* toggles of one channel give back the urls there were; and no two entries
\* of the list have the same url.
C37_ToggleInvolution ==
    LET urls == {favorites[i].url : i \in 1..Len(favorites)}
    IN  /\ last.op = "App.toggleFavorite" =>
              (last.arg \in urls <=> ~last.fav)
        /\ Cardinality(urls) = Len(favorites)
\* The channels of the list that filterByGroup gives for the named group
InGroup(name) ==
    LET result == FilterByGroup(listing, name)
    IN  {result[j] : j \in 1..Len(result)}

\* getGroups has been called on a list that holds a channel (the entries it
\* gave are in groups), and the entries looked at are those of the set.
AgreeOn(entries) ==
    /\ (last.op = "filterByGroup" /\ groups # <<>>) =>
          \A k \in entries :
             groups[k].name = query => Len(listed) = groups[k].count
    /\ groups # <<>> =>
          \A i \in 1..Len(listing) :
             LET with == {k \in entries : listing[i] \in InGroup(groups[k].name)}
             IN  IF GroupOf(listing[i]) \in {groups[k].name : k \in entries}
                 THEN Cardinality(with) = 1
                 ELSE with = {}

\* C38: for every entry {name, count} of getGroups(channels),
\* filterByGroup(channels, name) returns exactly count channels, and the
\* results over all entries partition channels: every channel is in the
\* result of exactly one entry.
C38_GroupsAgree == AgreeOn(1..Len(groups))

\* C38, amended: the same for the entries whose name is not 'all', whose
\* results partition the channels of the groups not named 'all'.
C38_GroupsAgreeButAll ==
    AgreeOn({k \in 1..Len(groups) : groups[k].name # <<"a", "l", "l">>})

\* getGroups gave two entries for three channels, one of them for a group
\* named 'all', and filterByGroup, asked for the other group, has returned
\* its two channels.
C38_Witness ==
    /\ last.op = "filterByGroup"
    /\ Len(listing) = 3
    /\ Len(groups) = 2
    /\ groups[1] = [name |-> <<"x">>, count |-> 2]
    /\ groups[2].name = <<"a", "l", "l">>
    /\ query = <<"x">>
    /\ Len(listed) = 2

====
